---- MODULE Spec2Model ----
(***************************************************************************)
(* The OTA update server (ota-server/server.js): the in-memory agent       *)
(* registry `agentStatus`, the request handlers that update it, and the    *)
(* periodic sweep that evicts inactive agents.                             *)
(*                                                                         *)
(* JavaScript strings are sequences of one-character strings, so that      *)
(* split, trim and the regular expression of the version.yaml handler are  *)
(* computed character by character.                                        *)
(***************************************************************************)
EXTENDS Integers, Sequences, FiniteSets, TLC

VARIABLES
    agentStatus,   \* Map appName -> Map agentId -> agent record   (server.js:139)
    now,           \* the wall clock, in ms since the epoch (Date.now())
    configFiles,   \* the disk: appName -> text of APPS_DIR/<app>/version.yaml, or NoFile
    calls,         \* history: the recordAgentStatus calls made so far, oldest first
    responses,     \* history: the replies sent to requests so far, oldest first
    streams,       \* the file downloads whose read stream is piped and still open
    flight,        \* the callbacks on the call stack, each with its position and locals
    serial,        \* history: the registry as the callbacks started so far, run one
                   \* after the other in the order they started, leave it
    probe          \* a function under examination: its arguments and its result

vars == <<agentStatus, now, configFiles, calls, responses, streams, flight, serial, probe>>

\* The variables of the server's handlers, of the statement-level view of the
\* registry operations, and of the functions examined on their own.
handlerVars == <<responses, streams>>
loopVars == <<flight, serial>>

----------------------------------------------------------------------------
(* Bounds of the model *)

MaxCalls == 2         \* recordAgentStatus calls in one behaviour of SpecRegistry
MaxRequests == 2      \* requests recorded in one behaviour of Spec
MaxTicks == 2         \* clock steps in one behaviour
MaxFiles == 2         \* files in one generateConfig call
MaxBuilds == 2        \* generateConfig calls in one behaviour of SpecRebuild
MaxRecords == 2       \* rows inserted into game_records in one behaviour
MaxSweeps == 7        \* firings of the interval timer in one behaviour of SpecTimer

\* The clock advances in steps of one hour.
ClockStep == 60 * 60 * 1000

----------------------------------------------------------------------------
(* JavaScript values *)

\* undefined and null: two values that are no string (every element of a
\* string is a single character).
Undefined == <<"undefined">>
Null == <<"null">>
NoFile == <<"ENOENT">>
\* A file that exists and cannot be read: readFileSync throws.
Unreadable == <<"EACCES">>
\* What is at a path where a file exists when it is tested and is gone when
\* it is read.
Vanishing == <<"ENOENT", "late">>

\* ToBoolean on the values used here: undefined, null and '' are falsy.
Truthy(v) == v # Undefined /\ v # Null /\ v # <<>>

\* a || b
Or(a, b) == IF Truthy(a) THEN a ELSE b

Unknown == <<"u", "n", "k", "n", "o", "w", "n">>

Min(S) == CHOOSE x \in S : \A y \in S : x <= y
Max(S) == CHOOSE x \in S : \A y \in S : x >= y

IsSpace(c) == c \in {" ", "\t", "\n"}

\* s.split(',')[0]
SplitFirst(s) ==
    LET commas == {i \in 1..Len(s) : s[i] = ","}
    IN  IF commas = {} THEN s ELSE SubSeq(s, 1, Min(commas) - 1)

\* s.trim()
Trim(s) ==
    LET solid == {i \in 1..Len(s) : ~IsSpace(s[i])}
    IN  IF solid = {} THEN <<>> ELSE SubSeq(s, Min(solid), Max(solid))

\* new Date(ms).toISOString(): the instant written out in its fields
\* (the date part is kept as the day number).
ToISOString(ms) ==
    [day |-> ms \div 86400000,
     hh  |-> (ms \div 3600000) % 24,
     mm  |-> (ms \div 60000) % 60,
     ss  |-> (ms \div 1000) % 60,
     sss |-> ms % 1000]

\* new Date(iso).getTime()
DateGetTime(iso) ==
    (((iso.day * 24 + iso.hh) * 60 + iso.mm) * 60 + iso.ss) * 1000 + iso.sss

\* Map operations
EmptyMap == << >>
MapHas(m, k) == k \in DOMAIN m
MapSet(m, k, v) == [x \in (DOMAIN m) \cup {k} |-> IF x = k THEN v ELSE m[x]]

----------------------------------------------------------------------------
(* getClientIP and recordAgentStatus *)

\* Faulty variant of GetClientIP: x-real-ip is looked at before x-forwarded-for.
GetClientIPRealFirst(req) ==
    LET forwarded == req.headers["x-forwarded-for"]
        realIP == req.headers["x-real-ip"]
    IN  IF Truthy(realIP) THEN realIP
        ELSE IF Truthy(forwarded) THEN Trim(SplitFirst(forwarded))
        ELSE Or(req.remoteAddress, Unknown)

GetClientIP(req) ==
    LET forwarded == req.headers["x-forwarded-for"]
        realIP == req.headers["x-real-ip"]
    IN  IF Truthy(forwarded) THEN Trim(SplitFirst(forwarded))
        ELSE IF Truthy(realIP) THEN realIP
        ELSE Or(req.remoteAddress, Unknown)

\* Faulty variant of AgentId: the agent is always identified by its address.
AgentIdFromAddress(req) == GetClientIP(req)

\* const agentId = req.headers['x-agent-id'] || ip
AgentId(req) == Or(req.headers["x-agent-id"], GetClientIP(req))

\* Faulty variant of NewAgent: the count starts at 1, so the first call leaves 2.
NewAgentCountOne(agentId, localVersion, ip, nowIso, action, userAgent) ==
    [id |-> agentId,
     localVersion |-> localVersion,
     ip |-> ip,
     lastSeen |-> nowIso,
     requestCount |-> 1,
     currentVersion |-> Null,
     lastAction |-> action,
     userAgent |-> userAgent]

\* Faulty variant of NewAgent: the id field is filled with the address.
NewAgentIdFromIp(agentId, localVersion, ip, nowIso, action, userAgent) ==
    [id |-> ip,
     localVersion |-> localVersion,
     ip |-> ip,
     lastSeen |-> nowIso,
     requestCount |-> 0,
     currentVersion |-> Null,
     lastAction |-> action,
     userAgent |-> userAgent]

\* Faulty variant of NewAgent: the address is left for a later update to fill in.
NewAgentNoAddress(agentId, localVersion, ip, nowIso, action, userAgent) ==
    [id |-> agentId,
     localVersion |-> localVersion,
     ip |-> Unknown,
     lastSeen |-> nowIso,
     requestCount |-> 0,
     currentVersion |-> Null,
     lastAction |-> action,
     userAgent |-> userAgent]

\* The record stored for an agent seen for the first time.
NewAgent(agentId, localVersion, ip, nowIso, action, userAgent) ==
    [id |-> agentId,
     localVersion |-> localVersion,
     ip |-> ip,
     lastSeen |-> nowIso,
     requestCount |-> 0,
     currentVersion |-> Null,
     lastAction |-> action,
     userAgent |-> userAgent]

\* Faulty variant of UpdateAgent: only a newly created record is counted.
UpdateAgentNoIncrement(agent, nowIso, action, version, localVersion, req, ip) ==
    LET a1 == [agent EXCEPT !.lastSeen = nowIso,
                            !.requestCount = IF @ = 0 THEN 1 ELSE @,
                            !.lastAction = action]
        a2 == IF Truthy(version) THEN [a1 EXCEPT !.currentVersion = version] ELSE a1
        a3 == IF Truthy(localVersion) THEN [a2 EXCEPT !.localVersion = localVersion] ELSE a2
    IN  IF Truthy(req.headers["x-agent-id"]) THEN [a3 EXCEPT !.ip = ip] ELSE a3

\* Faulty variant of UpdateAgent: lastAction keeps the action of the first call.
UpdateAgentKeepsAction(agent, nowIso, action, version, localVersion, req, ip) ==
    LET a1 == [agent EXCEPT !.lastSeen = nowIso,
                            !.requestCount = @ + 1]
        a2 == IF Truthy(version) THEN [a1 EXCEPT !.currentVersion = version] ELSE a1
        a3 == IF Truthy(localVersion) THEN [a2 EXCEPT !.localVersion = localVersion] ELSE a2
    IN  IF Truthy(req.headers["x-agent-id"]) THEN [a3 EXCEPT !.ip = ip] ELSE a3

\* Faulty variant of UpdateAgent: localVersion is assigned even when empty.
UpdateAgentAlwaysLocal(agent, nowIso, action, version, localVersion, req, ip) ==
    LET a1 == [agent EXCEPT !.lastSeen = nowIso,
                            !.requestCount = @ + 1,
                            !.lastAction = action]
        a2 == IF Truthy(version) THEN [a1 EXCEPT !.currentVersion = version] ELSE a1
        a3 == [a2 EXCEPT !.localVersion = localVersion]
    IN  IF Truthy(req.headers["x-agent-id"]) THEN [a3 EXCEPT !.ip = ip] ELSE a3

\* Faulty variant of UpdateAgent: the address is overwritten on every call.
UpdateAgentAlwaysIp(agent, nowIso, action, version, localVersion, req, ip) ==
    LET a1 == [agent EXCEPT !.lastSeen = nowIso,
                            !.requestCount = @ + 1,
                            !.lastAction = action]
        a2 == IF Truthy(version) THEN [a1 EXCEPT !.currentVersion = version] ELSE a1
        a3 == IF Truthy(localVersion) THEN [a2 EXCEPT !.localVersion = localVersion] ELSE a2
    IN  [a3 EXCEPT !.ip = ip]

\* Faulty variant of UpdateAgent: the user agent is overwritten on every call.
UpdateAgentTakesLabel(agent, nowIso, action, version, localVersion, req, ip) ==
    LET a1 == [agent EXCEPT !.lastSeen = nowIso,
                            !.requestCount = @ + 1,
                            !.lastAction = action,
                            !.userAgent = Or(req.headers["user-agent"], Unknown)]
        a2 == IF Truthy(version) THEN [a1 EXCEPT !.currentVersion = version] ELSE a1
        a3 == IF Truthy(localVersion) THEN [a2 EXCEPT !.localVersion = localVersion] ELSE a2
    IN  IF Truthy(req.headers["x-agent-id"]) THEN [a3 EXCEPT !.ip = ip] ELSE a3

\* The updates made to the agent's record on every call.
UpdateAgent(agent, nowIso, action, version, localVersion, req, ip) ==
    LET a1 == [agent EXCEPT !.lastSeen = nowIso,
                            !.requestCount = @ + 1,
                            !.lastAction = action]
        a2 == IF Truthy(version) THEN [a1 EXCEPT !.currentVersion = version] ELSE a1
        a3 == IF Truthy(localVersion) THEN [a2 EXCEPT !.localVersion = localVersion] ELSE a2
    IN  IF Truthy(req.headers["x-agent-id"]) THEN [a3 EXCEPT !.ip = ip] ELSE a3

\* Faulty variant of RecordAgentStatus: the record is created anew on every
\* call, whether or not the agent is known.
RecordAgentStatusAlwaysNew(status, appName, req, action, version, clock) ==
    LET ip == GetClientIP(req)
        userAgent == Or(req.headers["user-agent"], Unknown)
        agentId == AgentId(req)
        localVersion == Or(req.headers["x-local-version"], <<>>)
        nowIso == ToISOString(clock)
        s1 == IF ~MapHas(status, appName) THEN MapSet(status, appName, EmptyMap) ELSE status
        a1 == MapSet(s1[appName], agentId,
                     NewAgent(agentId, localVersion, ip, nowIso, action, userAgent))
        agent == UpdateAgent(a1[agentId], nowIso, action, version, localVersion, req, ip)
    IN  MapSet(s1, appName, MapSet(a1, agentId, agent))

\* Faulty variant of RecordAgentStatus: the time of the call is written to
\* every record of the application.
RecordAgentStatusTouchesApp(status, appName, req, action, version, clock) ==
    LET ip == GetClientIP(req)
        userAgent == Or(req.headers["user-agent"], Unknown)
        agentId == AgentId(req)
        localVersion == Or(req.headers["x-local-version"], <<>>)
        nowIso == ToISOString(clock)
        s1 == IF ~MapHas(status, appName) THEN MapSet(status, appName, EmptyMap) ELSE status
        appAgents == s1[appName]
        a1 == IF ~MapHas(appAgents, agentId)
              THEN MapSet(appAgents, agentId,
                          NewAgent(agentId, localVersion, ip, nowIso, action, userAgent))
              ELSE appAgents
        agent == UpdateAgent(a1[agentId], nowIso, action, version, localVersion, req, ip)
        a2 == MapSet(a1, agentId, agent)
    IN  MapSet(s1, appName, [k \in DOMAIN a2 |-> [a2[k] EXCEPT !.lastSeen = nowIso]])

\* recordAgentStatus(appName, req, action, version) at clock time `clock`,
\* as the value of agentStatus after the call.
RecordAgentStatus(status, appName, req, action, version, clock) ==
    LET ip == GetClientIP(req)
        userAgent == Or(req.headers["user-agent"], Unknown)
        agentId == AgentId(req)
        localVersion == Or(req.headers["x-local-version"], <<>>)
        nowIso == ToISOString(clock)
        s1 == IF ~MapHas(status, appName) THEN MapSet(status, appName, EmptyMap) ELSE status
        appAgents == s1[appName]
        a1 == IF ~MapHas(appAgents, agentId)
              THEN MapSet(appAgents, agentId,
                          NewAgent(agentId, localVersion, ip, nowIso, action, userAgent))
              ELSE appAgents
        agent == UpdateAgent(a1[agentId], nowIso, action, version, localVersion, req, ip)
    IN  MapSet(s1, appName, MapSet(a1, agentId, agent))

----------------------------------------------------------------------------
(* cleanupInactiveAgents *)

\* Faulty variant of IsInactive: an agent seen exactly one hour ago is inactive.
IsInactiveInclusive(agent, clock) ==
    LET oneHourAgo == clock - 60 * 60 * 1000
        lastSeenTime == DateGetTime(agent.lastSeen)
    IN  lastSeenTime <= oneHourAgo

\* Faulty variant of IsInactive: the threshold lies two hours back.
IsInactiveTwoHours(agent, clock) ==
    LET oneHourAgo == clock - 2 * 60 * 60 * 1000
        lastSeenTime == DateGetTime(agent.lastSeen)
    IN  lastSeenTime < oneHourAgo

\* if (lastSeenTime < oneHourAgo) appAgents.delete(agentId)
IsInactive(agent, clock) ==
    LET oneHourAgo == clock - 60 * 60 * 1000
        lastSeenTime == DateGetTime(agent.lastSeen)
    IN  lastSeenTime < oneHourAgo

\* The agents of one application the sweep leaves in place.
SweepApp(appAgents, clock) ==
    [id \in {k \in DOMAIN appAgents : ~IsInactive(appAgents[k], clock)} |-> appAgents[id]]

\* Faulty variant of CleanupInactiveAgents: an emptied application stays.
CleanupKeepsEmptyApps(status, clock) ==
    [app \in DOMAIN status |-> SweepApp(status[app], clock)]

\* cleanupInactiveAgents() at clock time `clock`, as the value of agentStatus
\* after the sweep: an application left without agents is deleted.
CleanupInactiveAgents(status, clock) ==
    [app \in {a \in DOMAIN status : DOMAIN SweepApp(status[a], clock) # {}}
        |-> SweepApp(status[app], clock)]

----------------------------------------------------------------------------
(* The version.yaml text and the version the handler reads from it *)

VersionKey == <<"v", "e", "r", "s", "i", "o", "n", ":">>
FilesKey == <<"f", "i", "l", "e", "s", ":">>

\* The head of the YAML text generateConfig renders: version: "<version>" / files:
YamlHead(version) ==
    VersionKey \o <<" ", "\"">> \o version \o <<"\"", "\n">> \o FilesKey \o <<"\n">>

\* Faulty variant of ExtractVersion: the pattern is not anchored to a line start.
ExtractVersionUnanchored(content) ==
    LET n == Len(content)
        InGroup(i) == i <= n /\ content[i] \notin {"\"", "'", "\n"}
        AtKey(p) == /\ p + 7 <= n
                    /\ SubSeq(content, p, p + 7) = VersionKey
        Ways(q) == {w \in (0..(n - q + 1)) \X {0, 1} :
                        /\ \A i \in q..(q + w[1] - 1) : IsSpace(content[i])
                        /\ w[2] = 1 => /\ q + w[1] <= n
                                       /\ content[q + w[1]] \in {"\"", "'"}
                        /\ InGroup(q + w[1] + w[2])}
        Rank(w) == 2 * w[1] + w[2]
        Matches == {p \in 1..n : AtKey(p) /\ Ways(p + 8) # {}}
    IN  IF Matches = {} THEN Null
        ELSE LET p == Min(Matches)
                 w == CHOOSE x \in Ways(p + 8) : \A y \in Ways(p + 8) : Rank(x) >= Rank(y)
                 from == p + 8 + w[1] + w[2]
                 to == Max({e \in from..n : \A i \in from..e : InGroup(i)})
             IN  SubSeq(content, from, to)

\* content.match(/^version:\s*["']?([^"'\n]+)["']?/m): the first capture group of
\* the leftmost match, or null when nothing matches.  After the key, \s* is
\* greedy and backtracks, the optional quote is taken when it can be, and the
\* group takes every character up to the next quote or line end.
ExtractVersion(content) ==
    LET n == Len(content)
        InGroup(i) == i <= n /\ content[i] \notin {"\"", "'", "\n"}
        AtKey(p) == /\ p = 1 \/ content[p - 1] = "\n"
                    /\ p + 7 <= n
                    /\ SubSeq(content, p, p + 7) = VersionKey
        \* ways to match \s*["']? from position q: <<spaces skipped, quote taken>>
        Ways(q) == {w \in (0..(n - q + 1)) \X {0, 1} :
                        /\ \A i \in q..(q + w[1] - 1) : IsSpace(content[i])
                        /\ w[2] = 1 => /\ q + w[1] <= n
                                       /\ content[q + w[1]] \in {"\"", "'"}
                        /\ InGroup(q + w[1] + w[2])}
        Rank(w) == 2 * w[1] + w[2]
        Matches == {p \in 1..n : AtKey(p) /\ Ways(p + 8) # {}}
    IN  IF Matches = {} THEN Null
        ELSE LET p == Min(Matches)
                 w == CHOOSE x \in Ways(p + 8) : \A y \in Ways(p + 8) : Rank(x) >= Rank(y)
                 from == p + 8 + w[1] + w[2]
                 to == Max({e \in from..n : \A i \in from..e : InGroup(i)})
             IN  SubSeq(content, from, to)

----------------------------------------------------------------------------
(* Inputs: applications, files on disk, requests *)

Apps == {"robo", "arm"}
FileNames == {"fw.bin"}
\* The file names asked for where downloads are followed to their end: tmp.bin
\* is a file that is there when the handler tests for it and gone after.
RequestFileNames == FileNames \cup {"tmp.bin"}
Versions == {<<"1">>, <<"2">>}

\* A version.yaml with no top-level version line (the indented one belongs to
\* a file entry).
NoVersionText ==
    FilesKey \o <<"\n", " ", " ">> \o VersionKey \o <<" ", "\"", "9", "\"", "\n">>

ConfigTexts == {YamlHead(v) : v \in Versions} \cup {NoVersionText}

\* The files directories: robo has fw.bin to download, arm has nothing.
BinaryFiles == [a \in Apps |-> IF a = "robo" THEN {"fw.bin"} ELSE {}]
FleetingFiles == [a \in Apps |-> IF a = "robo" THEN {"tmp.bin"} ELSE {}]

HeaderNames == {"x-forwarded-for", "x-real-ip", "x-agent-id", "x-local-version", "user-agent"}

Req(forwarded, realIP, peer, agentId, localVersion, userAgent) ==
    [headers |-> [h \in HeaderNames |->
                    CASE h = "x-forwarded-for" -> forwarded
                      [] h = "x-real-ip" -> realIP
                      [] h = "x-agent-id" -> agentId
                      [] h = "x-local-version" -> localVersion
                      [] h = "user-agent" -> userAgent],
     remoteAddress |-> peer]

\* From address a, no headers: identified by its address.
ReqPlainA == Req(Undefined, Undefined, <<"a">>, Undefined, Undefined, Undefined)
\* From address a, with an empty x-agent-id header, reporting local version 1
\* and a user agent: identified by its address.
ReqLocalA == Req(Undefined, Undefined, <<"a">>, <<>>, <<"1">>, <<"c">>)
\* From address b, naming itself "a", reporting local version 2.
ReqNamedA == Req(Undefined, Undefined, <<"b">>, <<"a">>, <<"2">>, Undefined)
\* From address b, naming itself "x".
ReqNamedX == Req(Undefined, Undefined, <<"b">>, <<"x">>, Undefined, <<"c">>)

\* From address c, naming itself "a": the agent of ReqNamedA, moved.
ReqRoamingA == Req(Undefined, Undefined, <<"c">>, <<"a">>, Undefined, Undefined)

Requests == {ReqPlainA, ReqLocalA, ReqNamedA, ReqNamedX}

\* The requests that reach each application.
Traffic == ({"robo"} \X Requests) \cup {<<"arm", ReqNamedX>>}
ServerTraffic == {<<"robo", ReqPlainA>>, <<"robo", ReqNamedA>>, <<"arm", ReqNamedX>>}

\* What operators put on the disk: any text for robo, the version 1 manifest
\* for arm; NoFile removes the file.
Deployments ==
    ({"robo"} \X (ConfigTexts \cup {NoFile})) \cup ({"arm"} \X {YamlHead(<<"1">>), NoFile})

\* robo's version.yaml is published, replaced by a file the server cannot
\* read, or removed.
RequestDeployments == {"robo"} \X {YamlHead(<<"1">>), Unreadable, NoFile}

\* The (action, version) arguments of the two call sites of recordAgentStatus:
\* the version.yaml handler passes the version it read, or null; the files
\* handler passes none.
CallShapes == {<<"config_check", <<"1">>>>, <<"config_check", Null>>, <<"file_download", Null>>}

----------------------------------------------------------------------------
(* The state machine *)

\* One recordAgentStatus call, as kept in the history.
Call(appName, req, action, version, content, created, clock) ==
    [app |-> appName, req |-> req, action |-> action, version |-> version,
     content |-> content, created |-> created, at |-> clock]

HasAgent(status, appName, agentId) ==
    MapHas(status, appName) /\ MapHas(status[appName], agentId)

Init ==
    /\ agentStatus = EmptyMap
    /\ now = 0
    /\ configFiles = [a \in Apps |-> NoFile]
    /\ calls = <<>>
    /\ responses = <<>>
    /\ streams = {}
    /\ flight = <<>>
    /\ serial = EmptyMap
    /\ probe = Null

\* A call recordAgentStatus(appName, req, action, version).
RecordActivity(appName, req, action, version, content) ==
    /\ agentStatus' = RecordAgentStatus(agentStatus, appName, req, action, version, now)
    /\ calls' = Append(calls, Call(appName, req, action, version, content,
                                   ~HasAgent(agentStatus, appName, AgentId(req)), now))

\* A reply: res.writeHead(status) and, for a body sent at once, res.end(body).
\* `kind` is the endpoint, `file` the file asked of the files endpoint.
Response(kind, appName, file, req, status, body) ==
    [kind |-> kind, app |-> appName, file |-> file, req |-> req,
     status |-> status, body |-> body]

\* GET /ota/<appName>/version.yaml
\* Faulty variant of HandleVersionYaml: the content served to an application
\* before is kept and served again.
HandleVersionYamlCached(appName, req) ==
    /\ Len(responses) < MaxRequests
    /\ IF configFiles[appName] = NoFile
       THEN /\ responses' = Append(responses, Response("version.yaml", appName, Null, req, 404, Null))
            /\ UNCHANGED <<agentStatus, calls>>
       ELSE IF configFiles[appName] = Unreadable
       THEN /\ responses' = Append(responses, Response("version.yaml", appName, Null, req, 500, Null))
            /\ UNCHANGED <<agentStatus, calls>>
       ELSE LET cached == {i \in 1..Len(responses) :
                              /\ responses[i].kind = "version.yaml"
                              /\ responses[i].app = appName
                              /\ responses[i].status = 200}
                content == IF cached = {} THEN configFiles[appName]
                           ELSE responses[Min(cached)].body
                version == ExtractVersion(content)
            IN  /\ RecordActivity(appName, req, "config_check", version, content)
                /\ responses' = Append(responses,
                                       Response("version.yaml", appName, Null, req, 200, content))
    /\ UNCHANGED <<now, configFiles, streams, loopVars, probe>>

HandleVersionYaml(appName, req) ==
    /\ Len(responses) < MaxRequests
    /\ IF configFiles[appName] = NoFile
       THEN /\ responses' = Append(responses, Response("version.yaml", appName, Null, req, 404, Null))
            /\ UNCHANGED <<agentStatus, calls>>
       ELSE IF configFiles[appName] = Unreadable
       THEN \* readFileSync throws: the catch block answers 500
            /\ responses' = Append(responses, Response("version.yaml", appName, Null, req, 500, Null))
            /\ UNCHANGED <<agentStatus, calls>>
       ELSE LET content == configFiles[appName]
                version == ExtractVersion(content)
            IN  /\ RecordActivity(appName, req, "config_check", version, content)
                /\ responses' = Append(responses,
                                       Response("version.yaml", appName, Null, req, 200, content))
    /\ UNCHANGED <<now, configFiles, streams, loopVars, probe>>

\* A download: the file piped to the response of the request that made the
\* recordAgentStatus call numbered `call`.  It is open until the file has
\* been sent ("ended"), reading it fails ("error") or the client goes away
\* ("aborted").
Stream(appName, fileName, req, call) ==
    [app |-> appName, file |-> fileName, req |-> req, call |-> call, state |-> "open"]

Close(all, stream, state) == (all \ {stream}) \cup {[stream EXCEPT !.state = state]}

\* Faulty variant of HandleFileDownload: the file is served and the agent is
\* not recorded.
HandleFileDownloadNoRecord(appName, fileName, req) ==
    /\ Len(responses) < MaxRequests
    /\ IF fileName \notin BinaryFiles[appName] \cup FleetingFiles[appName]
       THEN /\ responses' = Append(responses, Response("files", appName, fileName, req, 404, Null))
            /\ UNCHANGED streams
       ELSE IF fileName \in FleetingFiles[appName]
       THEN /\ responses' = Append(responses, Response("files", appName, fileName, req, 500, Null))
            /\ UNCHANGED streams
       ELSE /\ responses' = Append(responses, Response("files", appName, fileName, req, 200, Null))
            /\ streams' = streams \cup {Stream(appName, fileName, req, Len(calls))}
    /\ UNCHANGED <<agentStatus, calls, now, configFiles, loopVars, probe>>

\* GET /ota/<appName>/files/<fileName>: the handler up to fileStream.pipe(res).
HandleFileDownload(appName, fileName, req) ==
    /\ Len(responses) < MaxRequests
    /\ IF fileName \notin BinaryFiles[appName] \cup FleetingFiles[appName]
       THEN /\ responses' = Append(responses, Response("files", appName, fileName, req, 404, Null))
            /\ UNCHANGED <<agentStatus, calls, streams>>
       ELSE IF fileName \in FleetingFiles[appName]
       THEN \* statSync throws after the agent was recorded: the catch block answers 500
            /\ RecordActivity(appName, req, "file_download", Null, Null)
            /\ responses' = Append(responses, Response("files", appName, fileName, req, 500, Null))
            /\ UNCHANGED streams
       ELSE /\ RecordActivity(appName, req, "file_download", Null, Null)
            /\ responses' = Append(responses, Response("files", appName, fileName, req, 200, Null))
            /\ streams' = streams \cup {Stream(appName, fileName, req, Len(calls) + 1)}
    /\ UNCHANGED <<now, configFiles, loopVars, probe>>

\* Faulty variant of OnStreamError: the failed download is rolled back by
\* removing the agent's record.
OnStreamErrorForgetsAgent(status, stream) ==
    LET agentId == AgentId(stream.req)
    IN  IF HasAgent(status, stream.app, agentId)
        THEN MapSet(status, stream.app,
                    [k \in DOMAIN status[stream.app] \ {agentId} |-> status[stream.app][k]])
        ELSE status

\* The registry after the read stream of a download has emitted 'error': the
\* listener logs, and answers 500 only if no header was sent (one was).
OnStreamError(status, stream) == status

\* The read stream of an open download fails (fileStream.on('error', ...)).
StreamError(stream) ==
    /\ stream.state = "open"
    /\ streams' = Close(streams, stream, "error")
    /\ agentStatus' = OnStreamError(agentStatus, stream)
    /\ UNCHANGED <<now, configFiles, calls, responses, loopVars, probe>>

\* The client of an open download goes away: pipe() stops writing; the server
\* has no listener for it.
ClientAbort(stream) ==
    /\ stream.state = "open"
    /\ streams' = Close(streams, stream, "aborted")
    /\ UNCHANGED <<agentStatus, now, configFiles, calls, responses, loopVars, probe>>

\* The read stream of an open download reaches the end of the file.
StreamEnd(stream) ==
    /\ stream.state = "open"
    /\ streams' = Close(streams, stream, "ended")
    /\ UNCHANGED <<agentStatus, now, configFiles, calls, responses, loopVars, probe>>

\* Array.from(appAgents.values()), or [] for an application without entry; the
\* order of the array is left out.
ListAgents(status, appName) ==
    IF MapHas(status, appName)
    THEN {status[appName][k] : k \in DOMAIN status[appName]}
    ELSE {}

\* Faulty variant of HandleAgents: the application's map is fetched with a
\* get-or-create, which leaves an entry for an application never seen.
HandleAgentsCreatesEntry(appName, req) ==
    /\ Len(responses) < MaxRequests
    /\ LET agents == ListAgents(agentStatus, appName)
       IN  responses' = Append(responses,
                Response("agents", appName, Null, req, 200,
                         [app |-> appName, agents |-> agents,
                          total |-> Cardinality(agents), timestamp |-> ToISOString(now)]))
    /\ agentStatus' = IF MapHas(agentStatus, appName) THEN agentStatus
                      ELSE MapSet(agentStatus, appName, EmptyMap)
    /\ UNCHANGED <<now, configFiles, calls, streams, loopVars, probe>>

\* GET /ota/<appName>/agents
HandleAgents(appName, req) ==
    /\ Len(responses) < MaxRequests
    /\ LET agents == ListAgents(agentStatus, appName)
       IN  responses' = Append(responses,
                Response("agents", appName, Null, req, 200,
                         [app |-> appName, agents |-> agents,
                          total |-> Cardinality(agents), timestamp |-> ToISOString(now)]))
    /\ UNCHANGED <<agentStatus, now, configFiles, calls, streams, loopVars, probe>>

\* The interval timer fires: setInterval(cleanupInactiveAgents, 10 * 60 * 1000)
CleanupTimer ==
    /\ agentStatus' = CleanupInactiveAgents(agentStatus, now)
    /\ UNCHANGED <<now, configFiles, calls, handlerVars, loopVars, probe>>

\* Time passes.
Tick ==
    /\ now + ClockStep <= MaxTicks * ClockStep
    /\ now' = now + ClockStep
    /\ UNCHANGED <<agentStatus, configFiles, calls, handlerVars, loopVars, probe>>

\* An operator publishes, replaces or removes an application's version.yaml.
WriteConfigFile(appName, text) ==
    /\ configFiles[appName] # text
    /\ configFiles' = [configFiles EXCEPT ![appName] = text]
    /\ UNCHANGED <<agentStatus, now, calls, handlerVars, loopVars, probe>>

\* The server: requests, the sweep, the clock and the disk.
Next ==
    \/ \E t \in ServerTraffic : HandleVersionYaml(t[1], t[2])
    \/ \E t \in ServerTraffic, f \in FileNames : HandleFileDownload(t[1], f, t[2])
    \/ CleanupTimer
    \/ Tick
    \/ \E d \in Deployments : WriteConfigFile(d[1], d[2])

Spec == Init /\ [][Next]_vars

\* The server as its clients see it: the three agent-facing endpoints with
\* their replies, the downloads in progress, the sweep, the clock, and robo's
\* version.yaml being published, made unreadable or removed.
NextRequests ==
    \/ \E t \in ServerTraffic : HandleVersionYaml(t[1], t[2])
    \/ \E t \in ServerTraffic, f \in RequestFileNames : HandleFileDownload(t[1], f, t[2])
    \/ \E s \in streams : StreamError(s)
    \/ \E s \in streams : ClientAbort(s)
    \/ \E s \in streams : StreamEnd(s)
    \/ \E a \in Apps : HandleAgents(a, ReqPlainA)
    \/ CleanupTimer
    \/ Tick
    \/ \E d \in RequestDeployments : WriteConfigFile(d[1], d[2])

SpecRequests == Init /\ [][NextRequests]_vars

\* The registry alone: recordAgentStatus called as its two call sites call it,
\* the sweep and the clock.
RecordCall(appName, req, action, version) ==
    /\ Len(calls) < MaxCalls
    /\ RecordActivity(appName, req, action, version, Null)
    /\ UNCHANGED <<now, configFiles, handlerVars, loopVars, probe>>

NextRegistry ==
    \/ \E t \in Traffic, c \in CallShapes : RecordCall(t[1], t[2], c[1], c[2])
    \/ CleanupTimer
    \/ Tick

SpecRegistry == Init /\ [][NextRegistry]_vars

\* The registry under requests that differ in how they identify their agent:
\* by name from two addresses, by an empty name, by no name; in two
\* applications.
IdentityTraffic ==
    ({"robo"} \X {ReqNamedA, ReqRoamingA, ReqLocalA, ReqPlainA}) \cup {<<"arm", ReqRoamingA>>}

NextIdentity ==
    \/ \E t \in IdentityTraffic : RecordCall(t[1], t[2], "file_download", Null)
    \/ CleanupTimer
    \/ Tick

SpecIdentity == Init /\ [][NextIdentity]_vars

\* The registry with its timer: setInterval keeps calling the sweep for as
\* long as the process lives, and the clock keeps advancing (up to the bound).
SpecSweep == Init /\ [][NextRegistry]_vars /\ WF_vars(CleanupTimer) /\ WF_vars(Tick)

\* The registry with its timer on time.  The callback of setInterval is due
\* every ten minutes from the start of the process; it runs at the instant it
\* is due, and the clock does not pass that instant before it has run.  Two
\* agents of one application call in between, and the list of agents is
\* asked for.

\* Faulty variant of NextSweepDue: the callback is due again after twice the
\* interval.
NextSweepDueLate(due) == due + 2 * 10 * 60 * 1000

\* setInterval(cleanupInactiveAgents, 10 * 60 * 1000): the instant the
\* callback is due next.
NextSweepDue(due) == due + 10 * 60 * 1000

\* The clock of this view advances in steps of ten minutes.
TimerStep == 10 * 60 * 1000

TimerTraffic == {<<"robo", ReqPlainA>>, <<"robo", ReqNamedX>>}

\* The process has started and the timer is set.
InitTimer ==
    /\ agentStatus = EmptyMap
    /\ now = 0
    /\ configFiles = [a \in Apps |-> NoFile]
    /\ calls = <<>>
    /\ responses = <<>>
    /\ streams = {}
    /\ flight = <<>>
    /\ serial = EmptyMap
    /\ probe = [fn |-> "setInterval", due |-> NextSweepDue(0)]

\* The timer fires at the instant it is due and is due again one interval on.
SweepOnTime ==
    /\ now = probe.due
    /\ probe.due <= MaxSweeps * 10 * 60 * 1000
    /\ agentStatus' = CleanupInactiveAgents(agentStatus, now)
    /\ probe' = [probe EXCEPT !.due = NextSweepDue(@)]
    /\ UNCHANGED <<now, configFiles, calls, handlerVars, loopVars>>

\* Time passes, up to the instant the timer is due.
Elapse ==
    /\ now + TimerStep <= probe.due
    /\ now' = now + TimerStep
    /\ UNCHANGED <<agentStatus, configFiles, calls, handlerVars, loopVars, probe>>

NextTimer ==
    \/ \E t \in TimerTraffic : RecordCall(t[1], t[2], "file_download", Null)
    \/ HandleAgents("robo", ReqPlainA)
    \/ SweepOnTime
    \/ Elapse

SpecTimer == InitTimer /\ [][NextTimer]_vars

----------------------------------------------------------------------------
(* The registry operations statement by statement.  recordAgentStatus and      *)
(* cleanupInactiveAgents are synchronous functions: once the event loop has    *)
(* called one, it runs from its first statement to its return, and the next    *)
(* callback (a request handler, the interval timer) starts only after that.    *)

\* The requests and call arguments used in the statement-level view.
LoopTraffic == {<<"robo", ReqPlainA>>, <<"robo", ReqNamedA>>, <<"arm", ReqNamedX>>}
LoopShapes == {<<"config_check", <<"1">>>>, <<"file_download", Null>>}

\* Faulty variant of CanStart: a callback may start while another one is
\* between two of its statements.
CanStartAnytime(running) == Len(running) < 2

\* The event loop calls a callback only when no callback is running.
CanStart(running) == running = <<>>

\* The frame of a recordAgentStatus call after its const declarations.
RecordJob(appName, req, action, version, clock) ==
    [kind |-> "record", pc |-> "app",
     appName |-> appName, req |-> req, action |-> action, version |-> version,
     ip |-> GetClientIP(req),
     userAgent |-> Or(req.headers["user-agent"], Unknown),
     agentId |-> AgentId(req),
     localVersion |-> Or(req.headers["x-local-version"], <<>>),
     nowIso |-> ToISOString(clock)]

\* The frame of a cleanupInactiveAgents call: the threshold, and the
\* applications the outer loop has yet to visit.
SweepJob(status, clock) ==
    [kind |-> "sweep", pc |-> "loop",
     oneHourAgo |-> clock - 60 * 60 * 1000,
     todo |-> DOMAIN status]

\* The statements of recordAgentStatus after the declarations, in order.
RecordPcs == <<"app", "agent", "lastSeen", "count", "action", "version", "local", "ip">>

NextPc(pc) ==
    LET i == CHOOSE k \in 1..Len(RecordPcs) : RecordPcs[k] = pc
    IN  IF i = Len(RecordPcs) THEN "return" ELSE RecordPcs[i + 1]

\* appAgents.get(agentId) is undefined.has(...) when the application's map is
\* not in the registry at the second if: a TypeError ends the call.
RecordThrows(status, j) == j.pc = "agent" /\ ~MapHas(status, j.appName)

\* The registry after the statement at j.pc.  The statements from 'lastSeen' on
\* write to the record object fetched before them; they show in the registry
\* as long as that object is still stored in it.
RecordStatement(status, j) ==
    LET stored == HasAgent(status, j.appName, j.agentId)
        Write(agent) == MapSet(status, j.appName, MapSet(status[j.appName], j.agentId, agent))
        agent == status[j.appName][j.agentId]
    IN  CASE j.pc = "app" ->
                IF ~MapHas(status, j.appName) THEN MapSet(status, j.appName, EmptyMap) ELSE status
          [] j.pc = "agent" ->
                IF ~MapHas(status[j.appName], j.agentId)
                THEN Write(NewAgent(j.agentId, j.localVersion, j.ip, j.nowIso, j.action, j.userAgent))
                ELSE status
          [] ~stored -> status
          [] j.pc = "lastSeen" -> Write([agent EXCEPT !.lastSeen = j.nowIso])
          [] j.pc = "count" -> Write([agent EXCEPT !.requestCount = @ + 1])
          [] j.pc = "action" -> Write([agent EXCEPT !.lastAction = j.action])
          [] j.pc = "version" ->
                IF Truthy(j.version) THEN Write([agent EXCEPT !.currentVersion = j.version])
                ELSE status
          [] j.pc = "local" ->
                IF Truthy(j.localVersion) THEN Write([agent EXCEPT !.localVersion = j.localVersion])
                ELSE status
          [] j.pc = "ip" ->
                IF Truthy(j.req.headers["x-agent-id"]) THEN Write([agent EXCEPT !.ip = j.ip])
                ELSE status

\* The applications in the order the outer loop of the sweep visits them.
AppOrder == <<"robo", "arm">>

NextApp(todo) == AppOrder[Min({k \in 1..Len(AppOrder) : AppOrder[k] \in todo})]

\* One round of the outer loop of the sweep: the inner loop deletes the
\* application's inactive agents, then the application if none is left.
SweepStatement(status, j) ==
    LET appName == NextApp(j.todo)
        kept == [id \in {k \in DOMAIN status[appName] :
                            ~(DateGetTime(status[appName][k].lastSeen) < j.oneHourAgo)}
                    |-> status[appName][id]]
    IN  IF ~MapHas(status, appName) THEN status
        ELSE IF DOMAIN kept = {}
        THEN [a \in DOMAIN status \ {appName} |-> status[a]]
        ELSE MapSet(status, appName, kept)

Without(running, i) == SubSeq(running, 1, i - 1) \o SubSeq(running, i + 1, Len(running))

\* A request handler is called and reaches its recordAgentStatus call.
StartRecord(appName, req, action, version) ==
    /\ CanStart(flight)
    /\ Len(calls) < MaxCalls
    /\ flight' = Append(flight, RecordJob(appName, req, action, version, now))
    /\ serial' = RecordAgentStatus(serial, appName, req, action, version, now)
    /\ calls' = Append(calls, Call(appName, req, action, version, Null,
                                   ~HasAgent(serial, appName, AgentId(req)), now))
    /\ UNCHANGED <<agentStatus, now, configFiles, handlerVars, probe>>

\* The running recordAgentStatus call executes its next statement.
StepRecord(i) ==
    /\ flight[i].kind = "record"
    /\ IF RecordThrows(agentStatus, flight[i])
       THEN /\ flight' = Without(flight, i)
            /\ UNCHANGED agentStatus
       ELSE /\ agentStatus' = RecordStatement(agentStatus, flight[i])
            /\ flight' = IF NextPc(flight[i].pc) = "return" THEN Without(flight, i)
                         ELSE [flight EXCEPT ![i].pc = NextPc(@)]
    /\ UNCHANGED <<now, configFiles, calls, handlerVars, serial, probe>>

\* The interval timer calls cleanupInactiveAgents (on an empty registry the
\* outer loop has nothing to visit and the call returns at once).
StartSweep ==
    /\ CanStart(flight)
    /\ agentStatus # EmptyMap
    /\ flight' = Append(flight, SweepJob(agentStatus, now))
    /\ serial' = CleanupInactiveAgents(serial, now)
    /\ UNCHANGED <<agentStatus, now, configFiles, calls, handlerVars, probe>>

\* The running sweep visits its next application, and returns after the last.
StepSweep(i) ==
    /\ flight[i].kind = "sweep"
    /\ agentStatus' = SweepStatement(agentStatus, flight[i])
    /\ LET left == flight[i].todo \ {NextApp(flight[i].todo)}
       IN  flight' = IF left = {} THEN Without(flight, i)
                     ELSE [flight EXCEPT ![i].todo = left]
    /\ UNCHANGED <<now, configFiles, calls, handlerVars, serial, probe>>

NextLoop ==
    \/ \E t \in LoopTraffic, c \in LoopShapes : StartRecord(t[1], t[2], c[1], c[2])
    \/ \E i \in 1..Len(flight) : StepRecord(i)
    \/ StartSweep
    \/ \E i \in 1..Len(flight) : StepSweep(i)
    \/ Tick

SpecLoop == Init /\ [][NextLoop]_vars

----------------------------------------------------------------------------
(* getClientIP and the agent identity on their own *)

\* Header values and peer addresses a request can arrive with: absent, empty,
\* and, for x-forwarded-for, one entry, a padded list, a list whose first entry
\* is empty, and a blank.
ForwardedValues ==
    {Undefined, <<>>, <<"f">>, <<" ", "f", " ", ",", "g">>, <<",", "g">>, <<" ">>}
RealIPValues == {Undefined, <<>>, <<"r">>}
PeerValues == {Undefined, <<>>, <<"p">>}
AgentIdValues == {Undefined, <<>>, <<"x">>}

ResolverRequests ==
    {Req(f, r, p, i, Undefined, Undefined) :
        f \in ForwardedValues, r \in RealIPValues, p \in PeerValues, i \in AgentIdValues}

\* A request arrives.
InitResolver ==
    /\ agentStatus = EmptyMap
    /\ now = 0
    /\ configFiles = [a \in Apps |-> NoFile]
    /\ calls = <<>>
    /\ responses = <<>>
    /\ streams = {}
    /\ flight = <<>>
    /\ serial = EmptyMap
    /\ probe \in {[fn |-> "getClientIP", req |-> r, done |-> FALSE] : r \in ResolverRequests}

\* const ip = getClientIP(req); const agentId = req.headers['x-agent-id'] || ip
Resolve ==
    /\ probe.fn = "getClientIP"
    /\ ~probe.done
    /\ probe' = [fn |-> "getClientIP", req |-> probe.req, done |-> TRUE,
                 ip |-> GetClientIP(probe.req), agentId |-> AgentId(probe.req)]
    /\ UNCHANGED <<agentStatus, now, configFiles, calls, handlerVars, loopVars>>

NextResolver == Resolve

SpecResolver == InitResolver /\ [][NextResolver]_vars

----------------------------------------------------------------------------
(* generateConfig *)

\* String(v) as a template literal writes it.
Str(v) == IF v = Undefined THEN <<"u", "n", "d", "e", "f", "i", "n", "e", "d">> ELSE IF v = Null THEN <<"n", "u", "l", "l">> ELSE v

\* path.basename(p): the part after the last slash, trailing slashes dropped.
Basename(p) ==
    LET solid == {i \in 1..Len(p) : p[i] # "/"}
    IN  IF solid = {} THEN <<>>
        ELSE LET last == Max(solid)
                 slashes == {i \in 1..last : p[i] = "/"}
             IN  SubSeq(p, IF slashes = {} THEN 1 ELSE Max(slashes) + 1, last)

\* What the file system has at a path: the bytes of a file, NoFile, or
\* Unreadable for something that exists and cannot be read.
Lookup(disk, path) == IF path \in DOMAIN disk THEN disk[path] ELSE NoFile

\* hashSum.digest('hex'): the digest as a function of the bytes, distinct bytes
\* having distinct digests.
Sha256Hex(bytes) == <<"#">> \o bytes

\* The configuration of the process: BASE_URL, and RESTART_CMD, which is the
\* environment variable of that name the process was started with, or ''.
BASE_URL == <<"h", "t", "t", "p", ":", "/", "/", "h">>
RESTART_CMD == Or(probe.env.RESTART_CMD, <<>>)

\* An Error with its message: a fixed text and, for some, a path after it.
Error(text, path) == [message |-> text, path |-> path]

\* The outcome of a check: passed, or an Error thrown.
Passed == [ok |-> TRUE]
Thrown(error) == [ok |-> FALSE, error |-> error]

\* Faulty variant of ValidateInputs: the application name is not checked.
ValidateInputsNoName(files, appName) ==
    IF ~files.isArray THEN Thrown(Error("Files must be an array", <<>>))
    ELSE IF Len(files.items) = 0 THEN Thrown(Error("Files array cannot be empty", <<>>))
    ELSE Passed

\* The checks before the loop, in order.  The files argument comes with the
\* answer of Array.isArray, and with its items if it is an array.
ValidateInputs(files, appName) ==
    IF ~files.isArray THEN Thrown(Error("Files must be an array", <<>>))
    ELSE IF Len(files.items) = 0 THEN Thrown(Error("Files array cannot be empty", <<>>))
    ELSE IF ~Truthy(appName) THEN Thrown(Error("App name is required", <<>>))
    ELSE Passed

\* A call of the fs module, as logged.
FsCall(op, path) == [op |-> op, path |-> path]

\* fs.existsSync(path).
ExistsSync(disk, path) == Lookup(disk, path) # NoFile

\* fs.readFileSync(path): the bytes of the file, or the Error thrown.
ReadFileSync(disk, path) ==
    LET at == Lookup(disk, path)
    IN  IF at \in {NoFile, Vanishing}
        THEN Thrown(Error("ENOENT: no such file or directory, open ", path))
        ELSE IF at = Unreadable
        THEN Thrown(Error("EACCES: permission denied, open ", path))
        ELSE [ok |-> TRUE, bytes |-> at]

\* Faulty variant of CalculateSHA256: a failed read is hashed as no bytes.
CalculateSHA256EmptyDigest(filePath, disk) ==
    LET read == ReadFileSync(disk, filePath)
    IN  [ok |-> TRUE, sha256 |-> Sha256Hex(IF read.ok THEN read.bytes ELSE <<>>)]

\* calculateSHA256(filePath): the digest of the bytes read, or the error of
\* the read, which the catch block logs and throws again.
CalculateSHA256(filePath, disk) ==
    LET read == ReadFileSync(disk, filePath)
    IN  IF read.ok THEN [ok |-> TRUE, sha256 |-> Sha256Hex(read.bytes)]
        ELSE Thrown(read.error)

\* Faulty variant of CheckFile: existence is not tested, the read fails instead.
CheckFileNoExistence(file, disk) ==
    IF ~Truthy(file.path)
    THEN [ok |-> FALSE, error |-> Error("Binary file not found: ", Unknown), fs |-> <<>>]
    ELSE LET hash == CalculateSHA256(file.path, disk)
             fs == <<FsCall("readFileSync", file.path)>>
         IN  IF hash.ok THEN [ok |-> TRUE, fs |-> fs, sha256 |-> hash.sha256]
             ELSE [ok |-> FALSE, error |-> hash.error, fs |-> fs]

\* One round of the loop up to the digest: whether it passed, the Error thrown
\* if not, the fs calls made, and the digest.  !file.path short-circuits the
\* existence test; an error thrown by calculateSHA256 is not caught.
CheckFile(file, disk) ==
    IF ~Truthy(file.path)
    THEN [ok |-> FALSE, error |-> Error("Binary file not found: ", Unknown), fs |-> <<>>]
    ELSE IF ~ExistsSync(disk, file.path)
    THEN [ok |-> FALSE, error |-> Error("Binary file not found: ", file.path),
          fs |-> <<FsCall("existsSync", file.path)>>]
    ELSE LET hash == CalculateSHA256(file.path, disk)
             fs == <<FsCall("existsSync", file.path), FsCall("readFileSync", file.path)>>
         IN  IF hash.ok THEN [ok |-> TRUE, fs |-> fs, sha256 |-> hash.sha256]
             ELSE [ok |-> FALSE, error |-> hash.error, fs |-> fs]

\* Faulty variant of FileEntry: the url ends with the whole path of the file.
FileEntryFullPath(file, sha256, version, appName, baseUrl) ==
    [name |-> Or(file.name, Basename(file.path)),
     url |-> Str(baseUrl) \o <<"/", "o", "t", "a", "/">> \o Str(appName) \o <<"/", "f", "i", "l", "e", "s", "/">> \o file.path,
     sha256 |-> sha256,
     target |-> file.target,
     version |-> Or(file.version, version),
     restart |-> file.restart]

\* The entry pushed to fileList.  A restart flag that is absent is FALSE here.
FileEntry(file, sha256, version, appName, baseUrl) ==
    LET fileName == Basename(file.path)
    IN  [name |-> Or(file.name, fileName),
         url |-> Str(baseUrl) \o <<"/", "o", "t", "a", "/">> \o Str(appName) \o <<"/", "f", "i", "l", "e", "s", "/">> \o fileName,
         sha256 |-> sha256,
         target |-> file.target,
         version |-> Or(file.version, version),
         restart |-> file.restart]

\* Faulty variant of FileYaml: the version line is written for every entry.
FileYamlAlwaysVersion(entry, version) ==
    <<" ", " ", "-", " ", "n", "a", "m", "e", ":", " ", "\"">> \o Str(entry.name) \o <<"\"", "\n">>
    \o <<" ", " ", " ", " ", "u", "r", "l", ":", " ", "\"">> \o Str(entry.url) \o <<"\"", "\n">>
    \o <<" ", " ", " ", " ", "s", "h", "a", "2", "5", "6", ":", " ", "\"">> \o Str(entry.sha256) \o <<"\"", "\n">>
    \o <<" ", " ", " ", " ", "t", "a", "r", "g", "e", "t", ":", " ", "\"">> \o Str(entry.target) \o <<"\"", "\n">>
    \o <<" ", " ", " ", " ", "v", "e", "r", "s", "i", "o", "n", ":", " ", "\"">> \o Str(entry.version) \o <<"\"", "\n">>
    \o (IF entry.restart THEN <<" ", " ", " ", " ", "r", "e", "s", "t", "a", "r", "t", ":", " ", "t", "r", "u", "e", "\n">> ELSE <<>>)

\* Faulty variant of FileYaml: the restart line is written before the version
\* line.
FileYamlRestartBeforeVersion(entry, version) ==
    <<" ", " ", "-", " ", "n", "a", "m", "e", ":", " ", "\"">> \o Str(entry.name) \o <<"\"", "\n">>
    \o <<" ", " ", " ", " ", "u", "r", "l", ":", " ", "\"">> \o Str(entry.url) \o <<"\"", "\n">>
    \o <<" ", " ", " ", " ", "s", "h", "a", "2", "5", "6", ":", " ", "\"">> \o Str(entry.sha256) \o <<"\"", "\n">>
    \o <<" ", " ", " ", " ", "t", "a", "r", "g", "e", "t", ":", " ", "\"">> \o Str(entry.target) \o <<"\"", "\n">>
    \o (IF entry.restart THEN <<" ", " ", " ", " ", "r", "e", "s", "t", "a", "r", "t", ":", " ", "t", "r", "u", "e", "\n">> ELSE <<>>)
    \o (IF Truthy(entry.version) /\ entry.version # version
        THEN <<" ", " ", " ", " ", "v", "e", "r", "s", "i", "o", "n", ":", " ", "\"">> \o Str(entry.version) \o <<"\"", "\n">> ELSE <<>>)

\* The YAML lines of one entry.
FileYaml(entry, version) ==
    <<" ", " ", "-", " ", "n", "a", "m", "e", ":", " ", "\"">> \o Str(entry.name) \o <<"\"", "\n">>
    \o <<" ", " ", " ", " ", "u", "r", "l", ":", " ", "\"">> \o Str(entry.url) \o <<"\"", "\n">>
    \o <<" ", " ", " ", " ", "s", "h", "a", "2", "5", "6", ":", " ", "\"">> \o Str(entry.sha256) \o <<"\"", "\n">>
    \o <<" ", " ", " ", " ", "t", "a", "r", "g", "e", "t", ":", " ", "\"">> \o Str(entry.target) \o <<"\"", "\n">>
    \o (IF Truthy(entry.version) /\ entry.version # version
        THEN <<" ", " ", " ", " ", "v", "e", "r", "s", "i", "o", "n", ":", " ", "\"">> \o Str(entry.version) \o <<"\"", "\n">> ELSE <<>>)
    \o (IF entry.restart THEN <<" ", " ", " ", " ", "r", "e", "s", "t", "a", "r", "t", ":", " ", "t", "r", "u", "e", "\n">> ELSE <<>>)

RECURSIVE FilesYaml(_, _)
FilesYaml(fileList, version) ==
    IF fileList = <<>> THEN <<>>
    ELSE FileYaml(Head(fileList), version) \o FilesYaml(Tail(fileList), version)

\* Faulty variant of RenderYaml: the text ends with the number of the build.
RenderYamlStamped(config) ==
    VersionKey \o <<" ", "\"">> \o Str(config.version) \o <<"\"", "\n">> \o FilesKey \o <<"\n">>
    \o FilesYaml(config.files, config.version)
    \o (IF Truthy(config.restart_cmd)
        THEN <<"r", "e", "s", "t", "a", "r", "t", "_", "c", "m", "d", ":", " ", "'">> \o config.restart_cmd \o <<"'", "\n">> ELSE <<>>)
    \o (IF "built" \in DOMAIN probe
        THEN <<"#", " ">> \o [i \in 1..Len(probe.built) |-> "i"] \o <<"\n">> ELSE <<>>)

\* The YAML text: the head, the entries, and restart_cmd if there is one.
RenderYaml(config) ==
    VersionKey \o <<" ", "\"">> \o Str(config.version) \o <<"\"", "\n">> \o FilesKey \o <<"\n">>
    \o FilesYaml(config.files, config.version)
    \o (IF Truthy(config.restart_cmd)
        THEN <<"r", "e", "s", "t", "a", "r", "t", "_", "c", "m", "d", ":", " ", "'">> \o config.restart_cmd \o <<"'", "\n">> ELSE <<>>)

RECURSIVE FsCalls(_, _, _)
\* The fs calls of the rounds 1..n of the loop, in order.
FsCalls(files, disk, n) ==
    IF n = 0 THEN <<>> ELSE FsCalls(files, disk, n - 1) \o CheckFile(files[n], disk).fs

\* Faulty variant of GenerateConfig: an empty restartCmd option falls back to
\* RESTART_CMD.
GenerateConfigOptionOrDefault(files, version, appName, options, disk) ==
    LET baseUrl == Or(options.baseUrl, BASE_URL)
        restartCmd == IF Truthy(options.restartCmd) THEN options.restartCmd
                      ELSE RESTART_CMD
        invalid == ValidateInputs(files, appName)
        items == files.items
        failing == {i \in 1..Len(items) : ~CheckFile(items[i], disk).ok}
    IN  IF ~invalid.ok THEN [threw |-> TRUE, error |-> invalid.error, fs |-> <<>>]
        ELSE IF failing # {}
        THEN [threw |-> TRUE,
              error |-> CheckFile(items[Min(failing)], disk).error,
              fs |-> FsCalls(items, disk, Min(failing))]
        ELSE LET fileList == [i \in 1..Len(items) |->
                                FileEntry(items[i], CheckFile(items[i], disk).sha256,
                                          version, appName, baseUrl)]
                 config == [version |-> version,
                            files |-> fileList,
                            restart_cmd |-> Or(restartCmd, Undefined)]
             IN  [threw |-> FALSE,
                  value |-> [yaml |-> RenderYaml(config), config |-> config],
                  fs |-> FsCalls(items, disk, Len(items))]

\* generateConfig(files, version, appName, options) against a file system: the
\* Error thrown, or the value returned, and the fs calls made on the way.
GenerateConfig(files, version, appName, options, disk) ==
    LET baseUrl == Or(options.baseUrl, BASE_URL)
        restartCmd == IF options.restartCmd # Undefined THEN options.restartCmd
                      ELSE RESTART_CMD
        invalid == ValidateInputs(files, appName)
        items == files.items
        failing == {i \in 1..Len(items) : ~CheckFile(items[i], disk).ok}
    IN  IF ~invalid.ok THEN [threw |-> TRUE, error |-> invalid.error, fs |-> <<>>]
        ELSE IF failing # {}
        THEN [threw |-> TRUE,
              error |-> CheckFile(items[Min(failing)], disk).error,
              fs |-> FsCalls(items, disk, Min(failing))]
        ELSE LET fileList == [i \in 1..Len(items) |->
                                FileEntry(items[i], CheckFile(items[i], disk).sha256,
                                          version, appName, baseUrl)]
                 config == [version |-> version,
                            files |-> fileList,
                            restart_cmd |-> Or(restartCmd, Undefined)]
             IN  [threw |-> FALSE,
                  value |-> [yaml |-> RenderYaml(config), config |-> config],
                  fs |-> FsCalls(items, disk, Len(items))]

\* Files to build a manifest from, and the file system they are looked up in:
\* two files that are there, a third one that has the name of the first in
\* another directory, a path that exists and cannot be read, a path whose
\* file is gone when it is read, two paths with nothing at them, an entry
\* without path, and an entry whose version is the empty string.
PathFw == <<"/", "d", "/", "f">>
PathCfg == <<"/", "e", "/", "g">>
PathLocked == <<"/", "d", "/", "k">>
PathGone == <<"/", "d", "/", "x">>
PathLost == <<"/", "d", "/", "y">>
PathFleeting == <<"/", "d", "/", "v">>
PathTwin == <<"/", "e", "/", "f">>

ManifestDisk ==
    [p \in {PathFw, PathCfg, PathTwin, PathLocked, PathFleeting} |->
        CASE p = PathFw -> <<"x", "y">>
          [] p = PathCfg -> <<"z">>
          [] p = PathTwin -> <<"v">>
          [] p = PathLocked -> Unreadable
          [] p = PathFleeting -> Vanishing]

FileInput(path, name, target, version, restart) ==
    [path |-> path, name |-> name, target |-> target, version |-> version,
     restart |-> restart]

FileInputs ==
    {FileInput(PathFw, Undefined, <<"t">>, Undefined, FALSE),
     FileInput(PathCfg, <<"n">>, <<"u">>, <<"2">>, TRUE),
     FileInput(PathTwin, Undefined, <<"s">>, Undefined, FALSE),
     FileInput(PathLocked, Undefined, <<"t">>, Undefined, FALSE),
     FileInput(PathGone, Undefined, <<"t">>, Undefined, FALSE),
     FileInput(PathLost, Undefined, <<"t">>, Undefined, FALSE),
     FileInput(PathFleeting, Undefined, <<"t">>, Undefined, FALSE),
     FileInput(PathFw, Undefined, <<"t">>, <<>>, FALSE),
     FileInput(Undefined, <<"n">>, <<"t">>, Undefined, FALSE)}

\* The files arguments: something that is no array, and the arrays of up to
\* MaxFiles files.
FilesArguments ==
    {[isArray |-> FALSE, items |-> <<>>]}
        \cup {[isArray |-> TRUE, items |-> f] :
                 f \in UNION {[1..n -> FileInputs] : n \in 0..MaxFiles}}

AppNameArguments == {<<"r">>, <<>>, Undefined}

OptionsArguments ==
    {[baseUrl |-> Undefined, restartCmd |-> Undefined],
     [baseUrl |-> <<"b">>, restartCmd |-> <<"c">>],
     [baseUrl |-> <<>>, restartCmd |-> <<>>]}

VersionArguments == {<<"1">>, <<"2">>, <<>>}

\* process.env of the server: RESTART_CMD is not set, or set to a command.
Environments == {[RESTART_CMD |-> Undefined], [RESTART_CMD |-> <<"k">>]}

\* The paths calculateSHA256 is called with by a caller of the module.
HashPaths == {PathFw, PathCfg, PathLocked, PathFleeting, PathGone}

\* A caller is about to build a manifest, or to hash a file.
InitManifest ==
    /\ agentStatus = EmptyMap
    /\ now = 0
    /\ configFiles = [a \in Apps |-> NoFile]
    /\ calls = <<>>
    /\ responses = <<>>
    /\ streams = {}
    /\ flight = <<>>
    /\ serial = EmptyMap
    /\ probe \in
         {[fn |-> "generateConfig", done |-> FALSE,
           files |-> f, version |-> v, appName |-> a, options |-> o,
           env |-> e, disk |-> ManifestDisk] :
              f \in FilesArguments, v \in VersionArguments, a \in AppNameArguments,
              o \in OptionsArguments, e \in Environments}
         \cup {[fn |-> "calculateSHA256", done |-> FALSE,
                 filePath |-> p, disk |-> ManifestDisk] : p \in HashPaths}

\* generateConfig(files, version, appName, options) is called.
BuildManifest ==
    /\ probe.fn = "generateConfig"
    /\ ~probe.done
    /\ probe' = [fn |-> "generateConfig", done |-> TRUE,
                 files |-> probe.files, version |-> probe.version,
                 appName |-> probe.appName, options |-> probe.options,
                 env |-> probe.env, disk |-> probe.disk,
                 result |-> GenerateConfig(probe.files, probe.version, probe.appName,
                                           probe.options, probe.disk)]
    /\ UNCHANGED <<agentStatus, now, configFiles, calls, handlerVars, loopVars>>

\* calculateSHA256(filePath) is called.
HashFile ==
    /\ probe.fn = "calculateSHA256"
    /\ ~probe.done
    /\ probe' = [fn |-> "calculateSHA256", done |-> TRUE,
                 filePath |-> probe.filePath, disk |-> probe.disk,
                 result |-> CalculateSHA256(probe.filePath, probe.disk)]
    /\ UNCHANGED <<agentStatus, now, configFiles, calls, handlerVars, loopVars>>

NextManifest == BuildManifest \/ HashFile

SpecManifest == InitManifest /\ [][NextManifest]_vars

\* Manifests are built again and again from the same arguments, while the
\* files on disk are replaced and agents poll.
RebuildFiles ==
    {[isArray |-> TRUE, items |-> f] :
        f \in UNION {[1..n -> {FileInput(PathFw, Undefined, <<"t">>, Undefined, FALSE),
                               FileInput(PathCfg, <<"n">>, <<"u">>, <<"2">>, TRUE),
                               FileInput(PathGone, Undefined, <<"t">>, Undefined, FALSE)}] :
                         n \in 1..MaxFiles}}

InitRebuild ==
    /\ agentStatus = EmptyMap
    /\ now = 0
    /\ configFiles = [a \in Apps |-> NoFile]
    /\ calls = <<>>
    /\ responses = <<>>
    /\ streams = {}
    /\ flight = <<>>
    /\ serial = EmptyMap
    /\ probe \in {[fn |-> "generateConfig", built |-> <<>>,
                   files |-> f, version |-> <<"1">>, appName |-> <<"r">>,
                   options |-> [baseUrl |-> Undefined, restartCmd |-> Undefined],
                   env |-> e, disk |-> ManifestDisk] :
                     f \in RebuildFiles, e \in Environments}

\* generateConfig is called once more with the arguments of the caller; the
\* file system it ran against and what it did are logged.
Rebuild ==
    /\ "built" \in DOMAIN probe
    /\ Len(probe.built) < MaxBuilds
    /\ probe' = [probe EXCEPT !.built =
                    Append(@, [disk |-> probe.disk,
                               result |-> GenerateConfig(probe.files, probe.version,
                                                         probe.appName, probe.options,
                                                         probe.disk)])]
    /\ UNCHANGED <<agentStatus, now, configFiles, calls, handlerVars, loopVars>>

\* Someone replaces the firmware file on disk, or puts it back.
ReplaceFile ==
    /\ "built" \in DOMAIN probe
    /\ \E bytes \in {<<"x", "y">>, <<"w">>} :
          /\ probe.disk[PathFw] # bytes
          /\ probe' = [probe EXCEPT !.disk[PathFw] = bytes]
    /\ UNCHANGED <<agentStatus, now, configFiles, calls, handlerVars, loopVars>>

NextRebuild ==
    \/ Rebuild
    \/ ReplaceFile
    \/ RecordCall("robo", ReqPlainA, "file_download", Null)
    \/ Tick

SpecRebuild == InitRebuild /\ [][NextRebuild]_vars

----------------------------------------------------------------------------
(* insertGameRecord, queryGameRecords *)

\* Column values of game_records: NULL, or an INTEGER, or a TEXT.
SqlNullInteger == [isNull |-> TRUE, value |-> 0]
SqlNullText == [isNull |-> TRUE, value |-> <<>>]
SqlValue(v) == [isNull |-> FALSE, value |-> v]

\* column = ? in a WHERE clause: not true when the column is NULL.
SqlEquals(column, param) == ~column.isNull /\ column.value = param

\* parseInt of a string of decimal digits.
Digit(c) ==
    CASE c = "0" -> 0 [] c = "1" -> 1 [] c = "2" -> 2 [] c = "3" -> 3 [] c = "4" -> 4
      [] c = "5" -> 5 [] c = "6" -> 6 [] c = "7" -> 7 [] c = "8" -> 8 [] c = "9" -> 9

RECURSIVE ParseInt(_)
ParseInt(s) ==
    IF Len(s) = 1 THEN Digit(s[1])
    ELSE 10 * ParseInt(SubSeq(s, 1, Len(s) - 1)) + Digit(s[Len(s)])

\* The dates asked for, as the date parameter of the URL gives them.
March10 == <<"2", "0", "2", "4", "-", "0", "3", "-", "1", "0">>
March11 == <<"2", "0", "2", "4", "-", "0", "3", "-", "1", "1">>
March12 == <<"2", "0", "2", "4", "-", "0", "3", "-", "1", "2">>

\* The time zones of the host: UTC, and New York, where the clocks went from
\* 02:00 to 03:00 on 10 March 2024 and that day had 23 hours.
Zones == {"UTC", "America/New_York"}

\* Math.floor(new Date(date + 'T00:00:00').getTime() / 1000): the epoch
\* seconds of 00:00:00 of the date in the local time of the host.
LocalMidnight(zone, date) ==
    IF zone = "UTC"
    THEN CASE date = March10 -> 1710028800
           [] date = March11 -> 1710115200
           [] date = March12 -> 1710201600
    ELSE CASE date = March10 -> 1710046800
           [] date = March11 -> 1710129600
           [] date = March12 -> 1710216000

SecondsPerDay == 86400

\* A row of game_records.  The timestamp column holds epoch seconds written
\* in decimal, and CAST(timestamp AS INTEGER) is their number; a row
\* without timestamp is refused by the table.
Row(timestamp, type, duration) ==
    [timestamp |-> timestamp, type |-> type, duration |-> duration]

\* Faulty variant of Selected: a duration of 0 counts as no filter.
SelectedTruthyDuration(row, zone, date, type, duration) ==
    /\ Truthy(date) =>
          /\ row.timestamp >= LocalMidnight(zone, date)
          /\ row.timestamp < LocalMidnight(zone, date) + SecondsPerDay
    /\ Truthy(type) => SqlEquals(row.type, type)
    /\ (duration \notin {Null, Undefined, <<>>} /\ ParseInt(duration) # 0) =>
          SqlEquals(row.duration, ParseInt(duration))

\* The WHERE clause queryGameRecords puts together, applied to a row.
Selected(row, zone, date, type, duration) ==
    /\ Truthy(date) =>
          /\ row.timestamp >= LocalMidnight(zone, date)
          /\ row.timestamp < LocalMidnight(zone, date) + SecondsPerDay
    /\ Truthy(type) => SqlEquals(row.type, type)
    /\ duration \notin {Null, Undefined, <<>>} =>
          SqlEquals(row.duration, ParseInt(duration))

\* queryGameRecords(date, type, duration): the ids of the rows selected, in
\* one of the orders ORDER BY CAST(timestamp AS INTEGER) DESC allows.
QueryGameRecords(rows, zone, date, type, duration) ==
    LET ids == {i \in 1..Len(rows) : Selected(rows[i], zone, date, type, duration)}
    IN  {order \in [1..Cardinality(ids) -> ids] :
            /\ \A i, j \in DOMAIN order : i # j => order[i] # order[j]
            /\ \A i, j \in DOMAIN order :
                  i < j => rows[order[i]].timestamp >= rows[order[j]].timestamp}

\* The records clients report: at the instants around the ends of 10 March
\* in the zone of the host, and with and without type and duration.
Instants(zone) ==
    {LocalMidnight(zone, March10),
     LocalMidnight(zone, March11),
     LocalMidnight(zone, March10) + SecondsPerDay - 1,
     LocalMidnight(zone, March10) + SecondsPerDay}

RecordInputs(zone) ==
    {Row(t, SqlValue(<<"a">>), SqlValue(0)) : t \in Instants(zone)}
        \cup {Row(LocalMidnight(zone, March10), ty, du) :
                  ty \in {SqlValue(<<"b">>), SqlNullText},
                  du \in {SqlValue(5), SqlNullInteger}}

\* The parameters of /game/records: each is null when the URL has none.
DateArguments == {Null, March10, March11}
TypeArguments == {Null, <<>>, <<"a">>}
DurationArguments == {Null, <<>>, <<"0">>, <<"5">>}

InitRecords ==
    /\ agentStatus = EmptyMap
    /\ now = 0
    /\ configFiles = [a \in Apps |-> NoFile]
    /\ calls = <<>>
    /\ responses = <<>>
    /\ streams = {}
    /\ flight = <<>>
    /\ serial = EmptyMap
    /\ probe \in {[fn |-> "queryGameRecords", asked |-> FALSE, zone |-> z, rows |-> <<>>] :
                     z \in Zones}

\* insertGameRecord(timestamp, type, duration): the row is appended.
InsertGameRecord ==
    /\ probe.fn = "queryGameRecords"
    /\ Len(probe.rows) < MaxRecords
    /\ \E row \in RecordInputs(probe.zone) :
          probe' = [fn |-> "queryGameRecords", asked |-> FALSE, zone |-> probe.zone,
                    rows |-> Append(probe.rows, row)]
    /\ UNCHANGED <<agentStatus, now, configFiles, calls, handlerVars, loopVars>>

\* GET /game/records: queryGameRecords(date, type, duration) resolves with
\* the rows selected.
QueryRecords ==
    /\ probe.fn = "queryGameRecords"
    /\ \E date \in DateArguments, type \in TypeArguments, duration \in DurationArguments :
          \E order \in QueryGameRecords(probe.rows, probe.zone, date, type, duration) :
              probe' = [fn |-> "queryGameRecords", asked |-> TRUE, zone |-> probe.zone,
                        rows |-> probe.rows,
                        date |-> date, type |-> type, duration |-> duration,
                        result |-> order]
    /\ UNCHANGED <<agentStatus, now, configFiles, calls, handlerVars, loopVars>>

NextRecords == InsertGameRecord \/ QueryRecords

SpecRecords == InitRecords /\ [][NextRecords]_vars

----------------------------------------------------------------------------
(* The other routes of createServer *)

RECORDS_PASSWORD == <<"a", "d", "m", "i", "n", "1", "2", "3", "4", "5", "6">>

\* The passwords sent to /game/auth: the right one, a wrong one, none.
Passwords == {RECORDS_PASSWORD, <<"x">>, Undefined}

\* The record a client reports to /game/record.
ReportedRecord == Row(LocalMidnight("UTC", March10), SqlValue(<<"a">>), SqlValue(0))

\* GET /health, GET /ping
HandleHealth(req) ==
    /\ Len(responses) < MaxRequests
    /\ responses' = Append(responses, Response("health", "", Null, req, 200, Null))
    /\ UNCHANGED <<agentStatus, now, configFiles, calls, streams, loopVars, probe>>

\* /game/record: the record is stored in game_records.
HandleGameRecord(req) ==
    /\ Len(responses) < MaxRequests
    /\ Len(probe.rows) < MaxRecords
    /\ probe' = [probe EXCEPT !.rows = Append(@, ReportedRecord)]
    /\ responses' = Append(responses, Response("game/record", "", Null, req, 200,
                                               Len(probe.rows) + 1))
    /\ UNCHANGED <<agentStatus, now, configFiles, calls, streams, loopVars>>

\* POST /game/auth
HandleGameAuth(req, password) ==
    /\ Len(responses) < MaxRequests
    /\ responses' = Append(responses,
          Response("game/auth", "", Null, req,
                   IF Truthy(password) /\ password = RECORDS_PASSWORD THEN 200 ELSE 401,
                   Null))
    /\ UNCHANGED <<agentStatus, now, configFiles, calls, streams, loopVars, probe>>

\* GET /game/records without parameters
HandleGameRecords(req) ==
    /\ Len(responses) < MaxRequests
    /\ \E order \in QueryGameRecords(probe.rows, probe.zone, Null, Null, Null) :
          responses' = Append(responses, Response("game/records", "", Null, req, 200, order))
    /\ UNCHANGED <<agentStatus, now, configFiles, calls, streams, loopVars, probe>>

\* What /ota/<appName>/info says: whether readAppConfig read a version.yaml,
\* and appAgents.size, 0 for an application without entry.
AppInfo(status, files, appName) ==
    [config |-> files[appName] \notin {NoFile, Unreadable},
     count |-> IF MapHas(status, appName) THEN Cardinality(DOMAIN status[appName]) ELSE 0]

\* Faulty variant of HandleAppInfo: the request is recorded as one of an agent.
HandleAppInfoRecorded(appName, req) ==
    /\ Len(responses) < MaxRequests
    /\ RecordActivity(appName, req, "config_check", Null, Null)
    /\ responses' = Append(responses, Response("info", appName, Null, req, 200,
                                               AppInfo(agentStatus, configFiles, appName)))
    /\ UNCHANGED <<now, configFiles, streams, loopVars, probe>>

\* GET /ota/<appName>/info
HandleAppInfo(appName, req) ==
    /\ Len(responses) < MaxRequests
    /\ responses' = Append(responses, Response("info", appName, Null, req, 200,
                                               AppInfo(agentStatus, configFiles, appName)))
    /\ UNCHANGED <<agentStatus, now, configFiles, calls, streams, loopVars, probe>>

\* GET /info, GET /: the applications that have a version.yaml.
HandleServerInfo(req) ==
    /\ Len(responses) < MaxRequests
    /\ responses' = Append(responses, Response("server-info", "", Null, req, 200,
                                               {a \in Apps : configFiles[a] # NoFile}))
    /\ UNCHANGED <<agentStatus, now, configFiles, calls, streams, loopVars, probe>>

RouteTraffic == {<<"robo", ReqPlainA>>, <<"arm", ReqNamedX>>}

\* The server is up, game_records is empty.
InitRoutes ==
    /\ agentStatus = EmptyMap
    /\ now = 0
    /\ configFiles = [a \in Apps |-> NoFile]
    /\ calls = <<>>
    /\ responses = <<>>
    /\ streams = {}
    /\ flight = <<>>
    /\ serial = EmptyMap
    /\ probe = [fn |-> "queryGameRecords", asked |-> FALSE, zone |-> "UTC", rows |-> <<>>]

\* The server with all its routes, the sweep, the clock and the disk.
NextRoutes ==
    \/ \E t \in RouteTraffic : HandleVersionYaml(t[1], t[2])
    \/ \E t \in RouteTraffic, f \in RequestFileNames : HandleFileDownload(t[1], f, t[2])
    \/ \E a \in Apps : HandleAgents(a, ReqPlainA)
    \/ \E a \in Apps : HandleAppInfo(a, ReqPlainA)
    \/ HandleServerInfo(ReqPlainA)
    \/ HandleHealth(ReqPlainA)
    \/ HandleGameRecord(ReqPlainA)
    \/ \E password \in Passwords : HandleGameAuth(ReqPlainA, password)
    \/ HandleGameRecords(ReqPlainA)
    \/ CleanupTimer
    \/ Tick
    \/ \E d \in RequestDeployments : WriteConfigFile(d[1], d[2])

SpecRoutes == InitRoutes /\ [][NextRoutes]_vars

----------------------------------------------------------------------------
(* Properties of the registry *)

InactivityWindow == 3600000

\* The (application, agent identity) pairs that have a record.
Pairs(status) == UNION {{<<a, k>> : k \in DOMAIN status[a]} : a \in DOMAIN status}

Agent(status, p) == status[p[1]][p[2]]

\* The calls made for a pair, oldest first, and those made since its record
\* was last created.
CallsOf(p) == SelectSeq(calls, LAMBDA c : c.app = p[1] /\ AgentId(c.req) = p[2])

SinceCreation(p) ==
    LET s == CallsOf(p)
        born == {i \in 1..Len(s) : s[i].created}
    IN  IF born = {} THEN s ELSE SubSeq(s, Max(born), Len(s))

LastCall == calls[Len(calls)]
LastPair == <<LastCall.app, AgentId(LastCall.req)>>

\* A step that is a call of recordAgentStatus: the history grows by the call.
CallStep == Len(calls') = Len(calls) + 1

\* C1. Creation on first contact: a call of recordAgentStatus for a pair that
\* has no record leaves the registry with the same pairs plus that one, whose
\* record has requestCount 1 and a null currentVersion unless the call carried
\* a version (which it then holds); every other record is as it was.
C1_CreationOnFirstContact ==
    [][ CallStep => \A p \in {LastPair'} :
            p \notin Pairs(agentStatus) =>
                /\ Pairs(agentStatus') = Pairs(agentStatus) \cup {p}
                /\ Agent(agentStatus', p).requestCount = 1
                /\ LastCall'.version = Null => Agent(agentStatus', p).currentVersion = Null
                /\ LastCall'.version # Null =>
                      Agent(agentStatus', p).currentVersion = LastCall'.version
                /\ \A q \in Pairs(agentStatus) :
                      Agent(agentStatus', q) = Agent(agentStatus, q) ]_vars

\* A first contact has happened beside an older record: the last call created
\* its record, which counts 1 request and has no version.
C1_Witness ==
    /\ Len(calls) = 2
    /\ LastCall.created
    /\ LastCall.version = Null
    /\ Cardinality(Pairs(agentStatus)) = 2
    /\ Agent(agentStatus, LastPair).requestCount = 1
    /\ Agent(agentStatus, LastPair).currentVersion = Null

\* C2. Registry monotonicity: across every step that keeps a pair's record,
\* requestCount and lastSeen do not decrease, and a call of recordAgentStatus
\* for a pair that has a record strictly increases its requestCount.
C2_Monotonicity ==
    [][ /\ \A p \in Pairs(agentStatus) \cap Pairs(agentStatus') :
              /\ Agent(agentStatus', p).requestCount >= Agent(agentStatus, p).requestCount
              /\ DateGetTime(Agent(agentStatus', p).lastSeen)
                    >= DateGetTime(Agent(agentStatus, p).lastSeen)
        /\ CallStep => \A p \in {LastPair'} :
              p \in Pairs(agentStatus) =>
                  /\ p \in Pairs(agentStatus')
                  /\ Agent(agentStatus', p).requestCount
                        > Agent(agentStatus, p).requestCount ]_vars

\* A second call for the same pair, made later than the first, has been
\* recorded: the count is 2 and lastSeen has moved forward.
C2_Witness ==
    /\ Len(calls) = 2
    /\ ~LastCall.created
    /\ calls[1].app = LastCall.app
    /\ AgentId(calls[1].req) = AgentId(LastCall.req)
    /\ calls[1].at < LastCall.at
    /\ Agent(agentStatus, LastPair).requestCount = 2
    /\ DateGetTime(Agent(agentStatus, LastPair).lastSeen) > calls[1].at

\* C3. Eviction correctness: in every reachable registry state, the sweep run
\* at the current time leaves exactly the records whose lastSeen is not older
\* than now - InactivityWindow, each unchanged; a record seen exactly
\* InactivityWindow ago stays and every older one goes.
C3_EvictionCorrectness ==
    \A after \in {CleanupInactiveAgents(agentStatus, now)} :
    \A fresh \in {{p \in Pairs(agentStatus) :
                     DateGetTime(Agent(agentStatus, p).lastSeen) >= now - InactivityWindow}} :
        /\ Pairs(after) = fresh
        /\ \A p \in fresh : Agent(after, p) = Agent(agentStatus, p)

\* A sweep has removed the record of the first call while keeping a record
\* last seen exactly InactivityWindow ago.
C3_Witness ==
    /\ Len(calls) = 2
    /\ <<calls[1].app, AgentId(calls[1].req)>> \notin Pairs(agentStatus)
    /\ LastPair \in Pairs(agentStatus)
    /\ DateGetTime(Agent(agentStatus, LastPair).lastSeen) = now - InactivityWindow
    /\ calls[1].at < now - InactivityWindow

\* C4. No empty application entries: every application entry of the registry
\* holds at least one agent record.
C4_NoEmptyApplication ==
    \A a \in DOMAIN agentStatus : DOMAIN agentStatus[a] # {}

\* The last agent of an application has been evicted and the application
\* entry went with it, while another application keeps its agent.
C4_Witness ==
    /\ Len(calls) = 2
    /\ calls[1].app # LastCall.app
    /\ calls[1].app \notin DOMAIN agentStatus
    /\ LastCall.app \in DOMAIN agentStatus

\* C5. Record uniqueness: the record stored under an agent identity carries
\* that identity as its id, so no two records of an application share an id.
C5_RecordUniqueness ==
    \A a \in DOMAIN agentStatus :
        /\ \A k \in DOMAIN agentStatus[a] : agentStatus[a][k].id = k
        /\ \A k1, k2 \in DOMAIN agentStatus[a] :
              agentStatus[a][k1].id = agentStatus[a][k2].id => k1 = k2

\* An application holds two records, one of them stored under an identity
\* that differs from the address it holds.
C5_Witness ==
    \E a \in DOMAIN agentStatus :
        /\ Cardinality(DOMAIN agentStatus[a]) = 2
        /\ \E k \in DOMAIN agentStatus[a] : agentStatus[a][k].ip # k

\* C6 as claimed. requestCount equals the number of recordAgentStatus calls made
\* for the pair since its first contact, whatever sweeps ran in between.
C6_CountsSinceFirstContact ==
    \A p \in Pairs(agentStatus) :
        Agent(agentStatus, p).requestCount = Len(CallsOf(p))

\* C6, amended. requestCount equals the number of recordAgentStatus calls made
\* for the pair since its record was last created: a sweep that evicts the
\* record discards the count, and the next contact starts again from 1.
C6_CountsSinceCreation ==
    \A p \in Pairs(agentStatus) :
        /\ Agent(agentStatus, p).requestCount = Len(SinceCreation(p))
        /\ Agent(agentStatus, p).requestCount >= 1

\* An agent was evicted and has come back: two calls were made for the pair
\* and its record counts 1.
C6_Witness ==
    /\ Len(calls) = 2
    /\ Len(CallsOf(LastPair)) = 2
    /\ LastCall.created
    /\ Agent(agentStatus, LastPair).requestCount = 1

\* C7. Unconditional update: every call of recordAgentStatus leaves the pair's
\* record with lastSeen at the time of the call, requestCount one more than
\* before (1 for a new record) and lastAction the action of the call.
C7_UnconditionalUpdate ==
    [][ CallStep => \A p \in {LastPair'} :
                LET before == IF p \in Pairs(agentStatus)
                              THEN Agent(agentStatus, p).requestCount ELSE 0
                IN  /\ p \in Pairs(agentStatus')
                    /\ DateGetTime(Agent(agentStatus', p).lastSeen) = now
                    /\ Agent(agentStatus', p).requestCount = before + 1
                    /\ Agent(agentStatus', p).lastAction = LastCall'.action ]_vars

\* A record created by a manifest check was then updated, later, by a file
\* download: it shows the download, the later time and a count of 2.
C7_Witness ==
    /\ Len(calls) = 2
    /\ Len(SinceCreation(LastPair)) = 2
    /\ calls[1].action = "config_check"
    /\ LastCall.action = "file_download"
    /\ LastCall.at > calls[1].at
    /\ Agent(agentStatus, LastPair).lastAction = "file_download"
    /\ DateGetTime(Agent(agentStatus, LastPair).lastSeen) = LastCall.at
    /\ Agent(agentStatus, LastPair).requestCount = 2

\* The version a version.yaml text declares on its top-level version line, for
\* the texts written here; null for a text without such a line.
DeclaredVersion(text) ==
    IF \E v \in Versions : text = YamlHead(v)
    THEN CHOOSE v \in Versions : text = YamlHead(v)
    ELSE Null

\* The manifests served to a pair since its record was created, oldest first.
ServedSinceCreation(p) == SelectSeq(SinceCreation(p), LAMBDA c : c.action = "config_check")

\* C8 as claimed. currentVersion is the version of the manifest most recently
\* served to the agent since its record was created, and is null exactly when
\* no manifest has been served to it since then.
C8_TracksServedManifest ==
    \A p \in Pairs(agentStatus) :
        LET served == ServedSinceCreation(p)
            current == Agent(agentStatus, p).currentVersion
        IN  /\ current = Null <=> served = <<>>
            /\ served # <<>> => current = DeclaredVersion(served[Len(served)].content)

\* C8, amended. currentVersion is the version of the most recent manifest,
\* among those served to the agent since its record was created, that has a
\* top-level version line; it is null exactly when no such manifest has been
\* served.  File downloads, and manifests without a version line, leave it as
\* it was.
C8_TracksVersionedManifest ==
    \A p \in Pairs(agentStatus) :
        LET versioned == SelectSeq(ServedSinceCreation(p),
                                   LAMBDA c : DeclaredVersion(c.content) # Null)
            current == Agent(agentStatus, p).currentVersion
        IN  current = IF versioned = <<>> THEN Null
                      ELSE DeclaredVersion(versioned[Len(versioned)].content)

\* An agent was served the version 1 manifest and then a manifest with no
\* version line: its currentVersion is still 1.
C8_Witness ==
    /\ Len(calls) = 2
    /\ Len(ServedSinceCreation(LastPair)) = 2
    /\ DeclaredVersion(calls[1].content) = <<"1">>
    /\ LastCall.content = NoVersionText
    /\ Agent(agentStatus, LastPair).currentVersion = <<"1">>

\* The local versions reported for a pair since its record was created.
ReportedSinceCreation(p) ==
    SelectSeq(SinceCreation(p), LAMBDA c : Truthy(c.req.headers["x-local-version"]))

\* localVersion is the most recent non-empty local version reported for the
\* pair since its record was created, and empty if there was none.
LocalVersionIsLastReported ==
    \A p \in Pairs(agentStatus) :
        \A reported \in {ReportedSinceCreation(p)} :
            Agent(agentStatus, p).localVersion =
                IF reported = <<>> THEN <<>>
                ELSE reported[Len(reported)].req.headers["x-local-version"]

\* C9. localVersion update rule: a call reporting a non-empty local version
\* stores it, a call reporting none leaves the stored one as it is (empty for
\* a new record); so, after every step, localVersion is the most recent
\* non-empty local version reported since the record was created.
C9_LocalVersionRule ==
    [][ /\ LocalVersionIsLastReported'
        /\ CallStep => \A p \in {LastPair'} :
                  LET reported == LastCall'.req.headers["x-local-version"]
                  IN  Agent(agentStatus', p).localVersion =
                          IF Truthy(reported) THEN reported
                          ELSE IF p \in Pairs(agentStatus)
                               THEN Agent(agentStatus, p).localVersion
                               ELSE <<>> ]_vars

\* An agent reported a local version and then made a call reporting none: the
\* record still holds the version reported first.
C9_Witness ==
    /\ Len(calls) = 2
    /\ Len(SinceCreation(LastPair)) = 2
    /\ Truthy(calls[1].req.headers["x-local-version"])
    /\ ~Truthy(LastCall.req.headers["x-local-version"])
    /\ Agent(agentStatus, LastPair).localVersion = calls[1].req.headers["x-local-version"]

\* C10. Address-update policy: a call of recordAgentStatus for a pair that has
\* a record sets the stored address to the request's resolved address when
\* the request names its agent identity, and leaves the stored address
\* unchanged when it does not.
C10_AddressUpdatePolicy ==
    [][ CallStep => \A p \in {LastPair'} :
            p \in Pairs(agentStatus) =>
                Agent(agentStatus', p).ip =
                    IF Truthy(LastCall'.req.headers["x-agent-id"])
                    THEN GetClientIP(LastCall'.req)
                    ELSE Agent(agentStatus, p).ip ]_vars

\* A request that names no identity has updated a record whose stored address
\* differs from that request's address, and the stored address is unchanged.
C10_Witness ==
    /\ Len(calls) = 2
    /\ Len(SinceCreation(LastPair)) = 2
    /\ Truthy(calls[1].req.headers["x-agent-id"])
    /\ ~Truthy(LastCall.req.headers["x-agent-id"])
    /\ Agent(agentStatus, LastPair).ip = GetClientIP(calls[1].req)
    /\ Agent(agentStatus, LastPair).ip # GetClientIP(LastCall.req)

\* C11. Atomic mutations: a registry operation never starts while another one
\* is between two of its statements, and whenever no operation is running the
\* registry equals the result of running the operations started so far one
\* after the other, each as a whole, in the order they started; in
\* particular no increment is lost: every record counts the calls made for
\* its pair since it was created.
C11_AtomicMutations ==
    /\ Len(flight) <= 1
    /\ flight = <<>> =>
          /\ agentStatus = serial
          /\ \A p \in Pairs(agentStatus) :
                Agent(agentStatus, p).requestCount = Len(SinceCreation(p))

\* Two calls for one pair, made at different times, have run statement by
\* statement and returned: the record counts both.
C11_Witness ==
    /\ flight = <<>>
    /\ Len(calls) = 2
    /\ Len(SinceCreation(LastPair)) = 2
    /\ Agent(agentStatus, LastPair).requestCount = 2
    /\ agentStatus = serial
    /\ calls[1].at < LastCall.at

\* Every pair the traffic can create a record for.
AllPairs == {<<t[1], AgentId(t[2])>> : t \in Traffic}

\* The pair has a record last seen more than InactivityWindow ago.
Stale(p) ==
    /\ p \in Pairs(agentStatus)
    /\ DateGetTime(Agent(agentStatus, p).lastSeen) < now - InactivityWindow

\* C12. Eventual eviction: a record whose lastSeen has become older than the
\* inactivity window is eventually removed by a sweep, unless a request of the
\* agent refreshes it first; and no step removes a record whose lastSeen is
\* within the inactivity window.
C12_EventualEviction ==
    /\ \A p \in AllPairs : Stale(p) ~> ~Stale(p)
    /\ [][ \A p \in Pairs(agentStatus) :
              DateGetTime(Agent(agentStatus, p).lastSeen) >= now - InactivityWindow
                  => p \in Pairs(agentStatus') ]_vars

\* A record that had become stale is gone, no request having come from its
\* agent since, while a record seen within the window is still there.
C12_Witness ==
    /\ Len(calls) = 2
    /\ Len(CallsOf(<<calls[1].app, AgentId(calls[1].req)>>)) = 1
    /\ calls[1].at < now - InactivityWindow
    /\ <<calls[1].app, AgentId(calls[1].req)>> \notin Pairs(agentStatus)
    /\ LastPair \in Pairs(agentStatus)
    /\ LastCall.at >= now - InactivityWindow

----------------------------------------------------------------------------
(* Properties of the handlers *)

LastResponse == responses[Len(responses)]

\* A step in which a handler answers a request.
RequestStep == Len(responses') = Len(responses) + 1

\* The step has recorded the request of the reply: the requesting agent has a
\* record, counting one more than before (1 if new) and last seen now.
Recorded(reply) ==
    LET p == <<reply.app, AgentId(reply.req)>>
        before == IF p \in Pairs(agentStatus) THEN Agent(agentStatus, p).requestCount ELSE 0
    IN  /\ p \in Pairs(agentStatus')
        /\ Agent(agentStatus', p).requestCount = before + 1
        /\ DateGetTime(Agent(agentStatus', p).lastSeen) = now

\* The file a manifest-fetch or file-download request asks for is there to be
\* served: the version.yaml exists and can be read, the binary exists when
\* the handler tests for it.
Servable(reply) ==
    IF reply.kind = "version.yaml"
    THEN configFiles[reply.app] \notin {NoFile, Unreadable}
    ELSE reply.file \in BinaryFiles[reply.app] \cup FleetingFiles[reply.app]

\* C13 as claimed. Every manifest-fetch and every file-download request,
\* whatever its outcome, creates or updates the requesting agent's record.
C13_RecordedWhateverOutcome ==
    [][ RequestStep => \A reply \in {LastResponse'} :
            reply.kind \in {"version.yaml", "files"} => Recorded(reply) ]_vars

\* C13, amended. A manifest-fetch request whose version.yaml exists and is
\* read, and a file-download request whose file exists, create or update the
\* requesting agent's record by exactly one recordAgentStatus call (the
\* download is answered 500 if the file is gone right after); a request
\* for a file that is missing (answered 404), and a manifest request whose
\* read fails (answered 500), leave the registry as it was.
C13_RecordedWhenServed ==
    [][ RequestStep => \A reply \in {LastResponse'} :
            reply.kind \in {"version.yaml", "files"} =>
                IF Servable(reply)
                THEN /\ reply.status = IF /\ reply.kind = "files"
                                          /\ reply.file \in FleetingFiles[reply.app]
                                       THEN 500 ELSE 200
                     /\ Recorded(reply)
                     /\ Len(calls') = Len(calls) + 1
                     /\ LastCall'.app = reply.app /\ LastCall'.req = reply.req
                ELSE /\ reply.status \in {404, 500}
                     /\ agentStatus' = agentStatus
                     /\ calls' = calls ]_vars

\* A request was answered 404 and left no trace, and a later file download
\* of another agent was served and recorded.
C13_Witness ==
    /\ Len(responses) = 2
    /\ responses[1].status = 404
    /\ responses[2].status = 200
    /\ responses[2].kind = "files"
    /\ Len(calls) = 1
    /\ <<responses[1].app, AgentId(responses[1].req)>> \notin Pairs(agentStatus)
    /\ Agent(agentStatus, <<responses[2].app, AgentId(responses[2].req)>>).requestCount = 1

AgentFields ==
    {"id", "localVersion", "ip", "lastSeen", "requestCount", "currentVersion",
     "lastAction", "userAgent"}

\* C15. Download failure: the step in which a download fails after streaming
\* began (the read stream errs, the client goes away) changes neither the
\* registry nor the history of recordAgentStatus calls; the one call of the
\* request is the file_download call made when the request was handled; and
\* in every state each record has all its fields and each application entry
\* at least one record.
C15_DownloadFailureKeepsRegistry ==
    [][ /\ \A d \in streams' \ streams :
              d.state \in {"error", "aborted"} =>
                  /\ agentStatus' = agentStatus
                  /\ calls' = calls
        /\ \A d \in streams' :
              /\ d.call \in 1..Len(calls')
              /\ calls'[d.call].action = "file_download"
              /\ calls'[d.call].app = d.app
              /\ calls'[d.call].req = d.req
        /\ \A p \in Pairs(agentStatus') : DOMAIN Agent(agentStatus', p) = AgentFields
        /\ \A a \in DOMAIN agentStatus' : DOMAIN agentStatus'[a] # {} ]_vars

\* A download has failed right after its request was handled: the registry
\* holds the record of that one call, counted once.
C15_Witness ==
    /\ Len(calls) = 1
    /\ \E d \in streams :
          /\ d.state = "error"
          /\ d.call = 1
          /\ Agent(agentStatus, <<d.app, AgentId(d.req)>>).requestCount = 1
          /\ Agent(agentStatus, <<d.app, AgentId(d.req)>>).lastAction = "file_download"

\* C16. listAgents is a read-only snapshot: the agents endpoint answers 200
\* with exactly the records the registry holds for the application at that
\* moment (none, and no error, when the application has no entry) and their
\* number, and leaves the registry as it was, without an entry for an
\* application it did not have.
C16_ListAgentsReadOnly ==
    [][ RequestStep => \A reply \in {LastResponse'} :
            reply.kind = "agents" =>
                /\ reply.status = 200
                /\ reply.body.agents =
                      {Agent(agentStatus, p) : p \in {q \in Pairs(agentStatus) : q[1] = reply.app}}
                /\ reply.body.total = Cardinality(reply.body.agents)
                /\ reply.app \notin DOMAIN agentStatus => reply.body.agents = {}
                /\ agentStatus' = agentStatus
                /\ DOMAIN agentStatus' = DOMAIN agentStatus ]_vars

\* While the registry holds a record of one application, the agents of an
\* application without entry were listed: the reply is 200 with no agents, and
\* the registry still has the one record and no entry for that application.
C16_Witness ==
    /\ Len(responses) = 2
    /\ responses[2].kind = "agents"
    /\ responses[2].status = 200
    /\ responses[2].body.agents = {}
    /\ responses[2].body.total = 0
    /\ responses[2].app \notin DOMAIN agentStatus
    /\ Cardinality(Pairs(agentStatus)) = 1

----------------------------------------------------------------------------
(* Properties of getClientIP and of the agent identity *)

Resolved == probe.fn = "getClientIP" /\ probe.done

\* e is the first comma-separated entry of s: a comma-free prefix of s that is
\* all of s or is followed by a comma.
IsFirstEntry(e, s) ==
    /\ Len(e) <= Len(s)
    /\ e = SubSeq(s, 1, Len(e))
    /\ \A i \in 1..Len(e) : e[i] # ","
    /\ Len(e) = Len(s) \/ s[Len(e) + 1] = ","

\* t is e without its leading and trailing white space.
IsTrimOf(t, e) ==
    /\ t # <<>> => ~IsSpace(t[1]) /\ ~IsSpace(t[Len(t)])
    /\ \E lead \in 0..Len(e) :
          /\ lead + Len(t) <= Len(e)
          /\ t = SubSeq(e, lead + 1, lead + Len(t))
          /\ \A i \in (1..lead) \cup ((lead + Len(t) + 1)..Len(e)) : IsSpace(e[i])

\* The resolved address comes from the forwarded-address header.
FromForwarded(ip, req) ==
    \E k \in 0..Len(req.headers["x-forwarded-for"]) :
        /\ IsFirstEntry(SubSeq(req.headers["x-forwarded-for"], 1, k), req.headers["x-forwarded-for"])
        /\ IsTrimOf(ip, SubSeq(req.headers["x-forwarded-for"], 1, k))

\* C17 as claimed. The resolved address is the trimmed first entry of the
\* forwarded-address header when that header is present, else the real-address
\* header when present, else the peer address, else "unknown".
C17_PriorityByPresence ==
    Resolved =>
        LET h == probe.req.headers
        IN  IF h["x-forwarded-for"] # Undefined THEN FromForwarded(probe.ip, probe.req)
            ELSE IF h["x-real-ip"] # Undefined THEN probe.ip = h["x-real-ip"]
            ELSE IF probe.req.remoteAddress # Undefined THEN probe.ip = probe.req.remoteAddress
            ELSE probe.ip = Unknown

\* C17, amended. The resolved address is the trimmed first entry of the
\* forwarded-address header when that header is present with a non-empty
\* value; otherwise the real-address header when present with a non-empty
\* value; otherwise the peer address when there is a non-empty one; otherwise
\* "unknown".  A header that is present but empty counts as absent.
C17_PriorityByValue ==
    Resolved =>
        LET h == probe.req.headers
            Given(v) == v # Undefined /\ v # <<>>
        IN  IF Given(h["x-forwarded-for"]) THEN FromForwarded(probe.ip, probe.req)
            ELSE IF Given(h["x-real-ip"]) THEN probe.ip = h["x-real-ip"]
            ELSE IF Given(probe.req.remoteAddress) THEN probe.ip = probe.req.remoteAddress
            ELSE probe.ip = Unknown

\* A request with a padded list in x-forwarded-for, an x-real-ip header and a
\* peer address has been resolved to the first entry of the list, trimmed.
C17_Witness ==
    /\ Resolved
    /\ probe.req.headers["x-forwarded-for"] = <<" ", "f", " ", ",", "g">>
    /\ probe.req.headers["x-real-ip"] = <<"r">>
    /\ probe.req.remoteAddress = <<"p">>
    /\ probe.ip = <<"f">>

\* The pairs whose record a step created or changed.
Touched == {p \in Pairs(agentStatus') : p \notin Pairs(agentStatus)
                                         \/ Agent(agentStatus', p) # Agent(agentStatus, p)}

\* C18 as claimed. A call of recordAgentStatus creates or updates the record
\* stored, in the request's application, under the x-agent-id header when the
\* header is present, and under the resolved address otherwise.
C18_KeyByPresence ==
    [][ CallStep =>
            LET req == LastCall'.req
                key == IF req.headers["x-agent-id"] # Undefined
                       THEN req.headers["x-agent-id"] ELSE GetClientIP(req)
            IN  Touched = {<<LastCall'.app, key>>} ]_vars

\* C18, amended. A call of recordAgentStatus creates or updates exactly the
\* record stored, in the request's application, under the x-agent-id header
\* when the header is present with a non-empty value, and under the resolved
\* address otherwise; a request naming an identity that already has a record
\* in that application updates that record and adds none, whatever address it
\* comes from.
C18_KeyByValue ==
    [][ CallStep =>
            LET req == LastCall'.req
                named == req.headers["x-agent-id"] \notin {Undefined, <<>>}
                key == IF named THEN req.headers["x-agent-id"] ELSE GetClientIP(req)
            IN  /\ Touched = {<<LastCall'.app, key>>}
                /\ named /\ <<LastCall'.app, key>> \in Pairs(agentStatus) =>
                      /\ Pairs(agentStatus') = Pairs(agentStatus)
                      /\ Agent(agentStatus', <<LastCall'.app, key>>).requestCount =
                            Agent(agentStatus, <<LastCall'.app, key>>).requestCount + 1 ]_vars

\* Two requests naming the same identity came from different addresses to one
\* application: it holds one record, under that identity, counting both.
C18_Witness ==
    /\ Len(calls) = 2
    /\ calls[1].app = calls[2].app
    /\ calls[1].req.headers["x-agent-id"] = <<"a">>
    /\ calls[2].req.headers["x-agent-id"] = <<"a">>
    /\ GetClientIP(calls[1].req) # GetClientIP(calls[2].req)
    /\ Pairs(agentStatus) = {<<calls[1].app, <<"a">>>>}
    /\ Agent(agentStatus, <<calls[1].app, <<"a">>>>).requestCount = 2

----------------------------------------------------------------------------
(* Properties of generateConfig *)

Built == probe.fn = "generateConfig" /\ probe.done

EmptyList == probe.files.isArray /\ probe.files.items = <<>>
EmptyName == probe.appName \in {<<>>, Undefined}

\* C19. Manifest validation order: generateConfig called with an empty file
\* list or an empty application name throws, returns nothing and has made no
\* fs call; the error of an empty list is the one thrown when the name is
\* empty too, and the error of an empty name is thrown for a non-empty list.
C19_ValidationOrder ==
    Built =>
        LET r == probe.result
        IN  /\ EmptyList \/ EmptyName =>
                  /\ r.threw
                  /\ r.fs = <<>>
                  /\ "value" \notin DOMAIN r
            /\ EmptyList => r.error.message = "Files array cannot be empty"
            /\ EmptyName /\ probe.files.isArray /\ ~EmptyList =>
                  r.error.message = "App name is required"

\* generateConfig was called with an empty list and an empty name: it threw
\* the error of the empty list without an fs call.
C19_Witness ==
    /\ Built
    /\ EmptyList
    /\ probe.appName = <<>>
    /\ probe.result.threw
    /\ probe.result.error.message = "Files array cannot be empty"
    /\ probe.result.fs = <<>>

\* The file has no path, or nothing exists at its path.
Missing(file) ==
    \/ file.path \in {Undefined, <<>>}
    \/ file.path \notin DOMAIN probe.disk

\* The positions of the missing files of a call that passed the checks of
\* the list and of the name.
MissingFiles ==
    IF probe.files.isArray /\ ~EmptyName
    THEN {i \in 1..Len(probe.files.items) : Missing(probe.files.items[i])}
    ELSE {}

\* The error that names a missing file: its path, or 'unknown' without one.
NotFound(file) ==
    [message |-> "Binary file not found: ",
     path |-> IF file.path \in {Undefined, <<>>} THEN Unknown ELSE file.path]

\* C20 as claimed. If a file of the list is missing, generateConfig throws the
\* error naming the first missing file in input order and returns nothing.
C20_FirstMissingReported ==
    Built /\ MissingFiles # {} =>
        /\ probe.result.threw
        /\ "value" \notin DOMAIN probe.result
        /\ probe.result.error = NotFound(probe.files.items[Min(MissingFiles)])

\* C20, amended. If a file of the list is missing, generateConfig throws and
\* returns nothing; the error names the first missing file in input order
\* when every file before it could be read, and is otherwise the read error
\* of the first file before it that could not be read.
C20_MissingOrUnreadableReported ==
    Built /\ MissingFiles # {} =>
        LET items == probe.files.items
            k == Min(MissingFiles)
            unread == {i \in 1..(k - 1) :
                          probe.disk[items[i].path] \in {Unreadable, Vanishing}}
        IN  /\ probe.result.threw
            /\ "value" \notin DOMAIN probe.result
            /\ IF unread = {}
               THEN probe.result.error = NotFound(items[k])
               ELSE /\ probe.result.error.path = items[Min(unread)].path
                    /\ probe.result.error.message # "Binary file not found: "

\* A list of a file that is there and a file that is missing: the first was
\* hashed, the call threw the error naming the second and returned nothing.
C20_Witness ==
    /\ Built
    /\ Len(probe.files.items) = 2
    /\ probe.files.items[1].path = PathFw
    /\ probe.files.items[2].path = PathGone
    /\ probe.appName = <<"r">>
    /\ probe.result.threw
    /\ probe.result.error = [message |-> "Binary file not found: ", path |-> PathGone]
    /\ probe.result.fs[2] = [op |-> "readFileSync", path |-> PathFw]
    /\ "value" \notin DOMAIN probe.result

\* generateConfig returned a value.
Succeeded == Built /\ ~probe.result.threw

\* The base URL of a call: the option when it has a value, else BASE_URL.
BaseUrlInEffect ==
    IF probe.options.baseUrl \in {Undefined, <<>>} THEN BASE_URL
    ELSE probe.options.baseUrl

\* b is the last segment of the path: what follows its last slash.
IsBasenameOf(b, path) ==
    \E k \in 1..Len(path) :
        /\ path[k] = "/"
        /\ b = SubSeq(path, k + 1, Len(path))
        /\ \A j \in 1..Len(b) : b[j] # "/"

\* url is {baseUrl}/ota/{appName}/files/{basename(path)}.
IsDownloadUrl(url, path) ==
    \E b \in {SubSeq(path, k, Len(path)) : k \in 1..(Len(path) + 1)} :
        /\ IsBasenameOf(b, path)
        /\ url = BaseUrlInEffect \o <<"/", "o", "t", "a", "/">> \o probe.appName
                   \o <<"/", "f", "i", "l", "e", "s", "/">> \o b

\* The entries of the manifest returned mirror the files of the call, in
\* order, each with its url, the digest of the content at its path, and the
\* version the argument says: that of overridden(file) where it holds.
EntriesMirrorInputs(overridden(_)) ==
    LET items == probe.files.items
        entries == probe.result.value.config.files
    IN  /\ Len(entries) = Len(items)
        /\ Len(entries) >= 1
        /\ \A i \in 1..Len(items) :
              /\ IsDownloadUrl(entries[i].url, items[i].path)
              /\ entries[i].sha256 = Sha256Hex(probe.disk[items[i].path])
              /\ entries[i].version =
                    IF overridden(items[i]) THEN items[i].version ELSE probe.version

VersionGiven(file) == file.version # Undefined
VersionGivenNonEmpty(file) == file.version \notin {Undefined, <<>>}

\* C21 as claimed. A manifest returned by generateConfig has one entry per
\* input file, in input order, at least one; entry i has the url
\* {baseUrl}/ota/{appName}/files/{basename of path i}, the digest of the
\* content at path i, and the version of file i if one is given, else the
\* version of the manifest.
C21_EntriesMirrorInputs == Succeeded => EntriesMirrorInputs(VersionGiven)

\* C21, amended. As claimed, but the version of entry i is the version of
\* file i only if one is given and is not the empty string, else the version
\* of the manifest.
C21_EntriesMirrorNonEmptyOverrides == Succeeded => EntriesMirrorInputs(VersionGivenNonEmpty)

\* A manifest of version 1 was built from two files, the second with version
\* 2 of its own: two entries in that order, with their urls, digests and
\* versions.
C21_Witness ==
    /\ Succeeded
    /\ probe.version = <<"1">>
    /\ probe.appName = <<"r">>
    /\ probe.options.baseUrl = <<"b">>
    /\ Len(probe.files.items) = 2
    /\ probe.files.items[1] = FileInput(PathFw, Undefined, <<"t">>, Undefined, FALSE)
    /\ probe.files.items[2] = FileInput(PathCfg, <<"n">>, <<"u">>, <<"2">>, TRUE)
    /\ LET entries == probe.result.value.config.files
       IN  /\ Len(entries) = 2
           /\ entries[1].url = <<"b", "/", "o", "t", "a", "/", "r", "/", "f", "i", "l", "e", "s", "/", "f">>
           /\ entries[2].url = <<"b", "/", "o", "t", "a", "/", "r", "/", "f", "i", "l", "e", "s", "/", "g">>
           /\ entries[1].sha256 = Sha256Hex(<<"x", "y">>)
           /\ entries[2].sha256 = Sha256Hex(<<"z">>)
           /\ entries[1].version = <<"1">>
           /\ entries[2].version = <<"2">>

\* The lines of a text, each without the newline that ends it.
TextLines(text) ==
    LET ends == {i \in 1..Len(text) : text[i] = "\n"}
        End(k) == CHOOSE e \in ends : Cardinality({x \in ends : x < e}) = k - 1
    IN  [k \in 1..Cardinality(ends) |->
            SubSeq(text, IF k = 1 THEN 1 ELSE End(k - 1) + 1, End(k) - 1)]

StartsWith(line, prefix) ==
    /\ Len(line) >= Len(prefix)
    /\ SubSeq(line, 1, Len(prefix)) = prefix

NameKey == <<" ", " ", "-", " ", "n", "a", "m", "e", ":">>
UrlKey == <<" ", " ", " ", " ", "u", "r", "l", ":">>
Sha256Key == <<" ", " ", " ", " ", "s", "h", "a", "2", "5", "6", ":">>
TargetKey == <<" ", " ", " ", " ", "t", "a", "r", "g", "e", "t", ":">>
FileVersionKey == <<" ", " ", " ", " ", "v", "e", "r", "s", "i", "o", "n", ":">>
RestartLine == <<" ", " ", " ", " ", "r", "e", "s", "t", "a", "r", "t", ":", " ", "t", "r", "u", "e">>
RestartCmdKey == <<"r", "e", "s", "t", "a", "r", "t", "_", "c", "m", "d", ":">>

\* The lines of the text returned, and those of its i-th entry: from the
\* i-th line that opens an entry up to the next line that opens one or that
\* is not indented.
Rendered == TextLines(probe.result.value.yaml)

EntryLines(i) ==
    LET lines == Rendered
        opens == {k \in 1..Len(lines) : StartsWith(lines[k], NameKey)}
        first == CHOOSE k \in opens : Cardinality({x \in opens : x < k}) = i - 1
        stops == {k \in (first + 1)..Len(lines) :
                     StartsWith(lines[k], NameKey) \/ ~StartsWith(lines[k], <<" ">>)}
        last == IF stops = {} THEN Len(lines) ELSE Min(stops) - 1
    IN  SubSeq(lines, first, last)

Quoted(v) == <<" ", "\"">> \o v \o <<"\"">>

\* C22. Per-file version omission rule: in the text generateConfig returns,
\* the lines of an entry whose version equals the version of the manifest
\* have no version line, and the lines of an entry whose version differs
\* from it have the line that gives the version of the entry.
C22_VersionLineIffDiffers ==
    Succeeded =>
        LET entries == probe.result.value.config.files
        IN  /\ Cardinality({k \in 1..Len(Rendered) : StartsWith(Rendered[k], NameKey)})
                  = Len(entries)
            /\ \A i \in 1..Len(entries) :
                  LET versionLines == {k \in 1..Len(EntryLines(i)) :
                                          StartsWith(EntryLines(i)[k], FileVersionKey)}
                  IN  IF entries[i].version = probe.version
                      THEN versionLines = {}
                      ELSE /\ Cardinality(versionLines) = 1
                           /\ \A k \in versionLines :
                                 EntryLines(i)[k] = FileVersionKey \o Quoted(entries[i].version)

\* A manifest of version 1 was rendered from a file without version of its
\* own and a file of version 2: the first entry has no version line, the
\* second has the line version: "2".
C22_Witness ==
    /\ Succeeded
    /\ probe.version = <<"1">>
    /\ Len(probe.files.items) = 2
    /\ probe.files.items[1].version = Undefined
    /\ probe.files.items[2].version = <<"2">>
    /\ \A k \in 1..Len(EntryLines(1)) : ~StartsWith(EntryLines(1)[k], FileVersionKey)
    /\ \E k \in 1..Len(EntryLines(2)) :
          EntryLines(2)[k] = FileVersionKey \o <<" ", "\"", "2", "\"">>

\* The restart command of a call: the restartCmd option when one is given,
\* empty or not, else the RESTART_CMD of the environment, '' without one.
EffectiveRestartCmd ==
    IF probe.options.restartCmd # Undefined THEN probe.options.restartCmd
    ELSE IF probe.env.RESTART_CMD # Undefined THEN probe.env.RESTART_CMD
    ELSE <<>>

\* C23. restart_cmd rule: the text generateConfig returns ends with the line
\* restart_cmd: '<command>' if and only if the effective restart command is
\* not empty, the effective command being the restartCmd option when one is
\* given, even an empty one, and the command the server is configured with
\* otherwise; no other line is a restart_cmd line.
C23_RestartCmdIffEffective ==
    Succeeded =>
        LET lines == Rendered
            cmdLines == {k \in 1..Len(lines) : StartsWith(lines[k], RestartCmdKey)}
        IN  IF EffectiveRestartCmd = <<>>
            THEN cmdLines = {}
            ELSE /\ cmdLines = {Len(lines)}
                 /\ lines[Len(lines)] = RestartCmdKey \o <<" ", "'">> \o EffectiveRestartCmd \o <<"'">>

\* The server is configured with a restart command and a manifest was built
\* with the option set to the empty string: the text has no restart_cmd line.
C23_Witness ==
    /\ Succeeded
    /\ probe.env.RESTART_CMD = <<"k">>
    /\ probe.options.restartCmd = <<>>
    /\ \A k \in 1..Len(Rendered) : ~StartsWith(Rendered[k], RestartCmdKey)
    /\ StartsWith(Rendered[Len(Rendered)], <<" ">>)

\* C24. Per-file restart line: in the text generateConfig returns, the lines
\* of an entry have the line restart: true if and only if the file of the
\* entry was given with the restart flag, and the line is then the last of
\* the entry, after its name, url, sha256 and target lines, in that order,
\* and its version line if it has one.
C24_RestartLineIffFlag ==
    Succeeded =>
        \A i \in 1..Len(probe.files.items) :
            LET block == EntryLines(i)
                restarts == {k \in 1..Len(block) : block[k] = RestartLine}
                versions == {k \in 1..Len(block) : StartsWith(block[k], FileVersionKey)}
            IN  /\ Len(block) = 4 + Cardinality(versions) + Cardinality(restarts)
                /\ StartsWith(block[1], NameKey)
                /\ StartsWith(block[2], UrlKey)
                /\ StartsWith(block[3], Sha256Key)
                /\ StartsWith(block[4], TargetKey)
                /\ versions \subseteq {5}
                /\ restarts = IF probe.files.items[i].restart THEN {Len(block)} ELSE {}

\* A manifest of version 1 was rendered from a file of version 2 with the
\* restart flag and a file without the flag: the first entry ends with its
\* version line and restart: true after it, the second has no restart line.
C24_Witness ==
    /\ Succeeded
    /\ probe.version = <<"1">>
    /\ Len(probe.files.items) = 2
    /\ probe.files.items[1] = FileInput(PathCfg, <<"n">>, <<"u">>, <<"2">>, TRUE)
    /\ ~probe.files.items[2].restart
    /\ Len(EntryLines(1)) = 6
    /\ StartsWith(EntryLines(1)[5], FileVersionKey)
    /\ EntryLines(1)[6] = RestartLine
    /\ Len(EntryLines(2)) = 4
    /\ \A k \in 1..4 : EntryLines(2)[k] # RestartLine

\* A step in which generateConfig is called.
BuildStep ==
    /\ "built" \in DOMAIN probe
    /\ Len(probe'.built) = Len(probe.built) + 1

Hashed == probe.fn = "calculateSHA256" /\ probe.done

\* The error fs throws when the file at the path cannot be read: there is
\* none, or none any more, or it may not be opened.
ReadError(path) ==
    [message |-> IF Lookup(probe.disk, path) = Unreadable
                 THEN "EACCES: permission denied, open "
                 ELSE "ENOENT: no such file or directory, open ",
     path |-> path]

CannotBeRead(path) == Lookup(probe.disk, path) \in {NoFile, Unreadable, Vanishing}

\* C26. Hash failure propagates: calculateSHA256 called with a path where no
\* file is or where the file cannot be read throws the error of the read and
\* returns no digest; and generateConfig, when the first file of its list
\* that is not in order is one that exists and cannot be read, or is gone
\* when it is read, throws that same error and returns no manifest.
C26_HashFailurePropagates ==
    /\ Hashed /\ CannotBeRead(probe.filePath) =>
          /\ ~probe.result.ok
          /\ "sha256" \notin DOMAIN probe.result
          /\ probe.result.error = ReadError(probe.filePath)
    /\ Built /\ probe.files.isArray /\ ~EmptyList /\ ~EmptyName =>
          LET items == probe.files.items
              bad == {i \in 1..Len(items) :
                         \/ items[i].path \in {Undefined, <<>>}
                         \/ CannotBeRead(items[i].path)}
          IN  bad # {} =>
                  /\ probe.result.threw
                  /\ "value" \notin DOMAIN probe.result
                  /\ LET first == items[Min(bad)]
                     IN  /\ first.path \notin {Undefined, <<>>}
                         /\ Lookup(probe.disk, first.path) \in {Unreadable, Vanishing}
                         => probe.result.error = ReadError(first.path)

\* A manifest was built from a file that was there when generateConfig tested
\* it and gone when calculateSHA256 read it: the call threw the ENOENT error
\* of the read and returned nothing.
C26_Witness ==
    /\ Built
    /\ probe.appName = <<"r">>
    /\ Len(probe.files.items) = 1
    /\ probe.files.items[1].path = PathFleeting
    /\ probe.result.threw
    /\ "value" \notin DOMAIN probe.result
    /\ probe.result.fs = <<FsCall("existsSync", PathFleeting), FsCall("readFileSync", PathFleeting)>>
    /\ probe.result.error =
          [message |-> "ENOENT: no such file or directory, open ", path |-> PathFleeting]

----------------------------------------------------------------------------
(* Properties of the manifest handler *)

\* A step in which the version.yaml handler answers a request.
ManifestStep ==
    /\ RequestStep
    /\ LastResponse'.kind = "version.yaml"

\* The manifest fetch is answered from the disk as it is: 404 when there is
\* no version.yaml, else its content.
AnsweredFromDisk(reply) ==
    IF configFiles[reply.app] = NoFile THEN reply.status = 404
    ELSE /\ reply.status = 200
         /\ reply.body = configFiles[reply.app]

\* currentVersion of the agent of the reply before the step: null without
\* record.
VersionBefore(reply) ==
    LET p == <<reply.app, AgentId(reply.req)>>
    IN  IF p \in Pairs(agentStatus) THEN Agent(agentStatus, p).currentVersion ELSE Null

VersionAfter(reply) == Agent(agentStatus', <<reply.app, AgentId(reply.req)>>).currentVersion

EvictionStep ==
    /\ responses' = responses
    /\ calls' = calls
    /\ Pairs(agentStatus') \subseteq Pairs(agentStatus)
    /\ Pairs(agentStatus') # Pairs(agentStatus)
    /\ \A p \in Pairs(agentStatus') : Agent(agentStatus', p) = Agent(agentStatus, p)
    /\ \A p \in Pairs(agentStatus) \ Pairs(agentStatus') :
          now - DateGetTime(Agent(agentStatus, p).lastSeen) > InactivityWindow

\* The routes that serve agents: the manifest and the files.
AgentRoutes == {"version.yaml", "files"}

\* The registry changes in a step only if the step is the answer of an agent
\* route with a status among those given, or an eviction; and a request of
\* another route, or one answered not-found, leaves registry and call
\* history as they were.
RegistryWriteSet(fileStatuses) ==
    /\ agentStatus' # agentStatus =>
          \/ /\ RequestStep
             /\ \/ LastResponse'.kind = "version.yaml" /\ LastResponse'.status = 200
                \/ LastResponse'.kind = "files" /\ LastResponse'.status \in fileStatuses
             /\ Recorded(LastResponse')
          \/ EvictionStep
    /\ RequestStep /\ (LastResponse'.kind \notin AgentRoutes \/ LastResponse'.status = 404) =>
          /\ agentStatus' = agentStatus
          /\ calls' = calls

\* C30 as claimed. Registry write set: the registry changes only through a
\* manifest fetch that was served, a file download that was served, or the
\* eviction sweep; agent-list, application-info, server-info, health,
\* activity-record, auth and record-query requests, and manifest or file
\* requests answered not-found, leave it unchanged.
C30_WriteSetServedOnly == [][RegistryWriteSet({200})]_vars

\* C30, amended. The registry changes only through a manifest fetch that was
\* served, a file download whose file was found when the handler tested for
\* it, whether it is then served or answered with a server error, or the
\* eviction sweep; the other requests, and manifest or file requests
\* answered not-found, leave it unchanged.
C30_WriteSetFoundFiles == [][RegistryWriteSet({200, 500})]_vars

\* A download of an agent was served and recorded, and the information on
\* the application was asked for after it: the registry holds the record of
\* the download, counted once, and nothing about the second request.
C30_Witness ==
    /\ Len(responses) = 2
    /\ responses[1].kind = "files"
    /\ responses[1].status = 200
    /\ responses[2].kind = "info"
    /\ responses[2].app = responses[1].app
    /\ responses[2].body.count = 1
    /\ Len(calls) = 1
    /\ Pairs(agentStatus) = {<<responses[1].app, AgentId(responses[1].req)>>}
    /\ Agent(agentStatus, <<responses[1].app, AgentId(responses[1].req)>>).requestCount = 1

----------------------------------------------------------------------------
(* Properties of queryGameRecords *)

\* queryGameRecords has resolved.
Asked == probe.fn = "queryGameRecords" /\ probe.asked

\* The ids of the rows returned.
Returned == {probe.result[k] : k \in 1..Len(probe.result)}

\* The calendar date after a date.
NextDate(date) == IF date = March10 THEN March11 ELSE March12

\* A parameter of the query that has a value.
Supplied(v) == v \notin {Null, Undefined, <<>>}

\* The timestamp is in the interval [start of the day, start + 86400) of
\* the date asked for.
InDateInterval(timestamp) ==
    /\ timestamp >= LocalMidnight(probe.zone, probe.date)
    /\ timestamp < LocalMidnight(probe.zone, probe.date) + 86400

\* C27. Date filter boundary: a query filtered by a date D alone returns
\* every record whose timestamp is local midnight of D, returns no record
\* whose timestamp is local midnight of D + 1, and returns exactly the
\* records with a timestamp in [local midnight of D, local midnight of D +
\* 86400).
C27_DateFilterBoundary ==
    Asked /\ Supplied(probe.date) /\ ~Supplied(probe.type) /\ ~Supplied(probe.duration) =>
        \A i \in 1..Len(probe.rows) :
            LET timestamp == probe.rows[i].timestamp
            IN  /\ timestamp = LocalMidnight(probe.zone, probe.date) => i \in Returned
                /\ timestamp = LocalMidnight(probe.zone, NextDate(probe.date)) =>
                      i \notin Returned
                /\ i \in Returned <=> InDateInterval(timestamp)

\* The number a duration parameter stands for.
DurationAsked == IF probe.duration = <<"0">> THEN 0 ELSE 5

\* C28. Filter composition: a query returns, each once, exactly the stored
\* records that satisfy every filter supplied: a timestamp in the interval
\* of the date, a type equal to the type asked for, a duration equal to the
\* duration asked for, 0 included; a filter that is not supplied excludes no
\* record, so a query without filters returns every record, those with a
\* null type or duration too.
C28_FilterComposition ==
    Asked =>
        /\ Len(probe.result) = Cardinality(Returned)
        /\ \A i \in 1..Len(probe.rows) :
              LET row == probe.rows[i]
              IN  i \in Returned <=>
                      /\ Supplied(probe.date) => InDateInterval(row.timestamp)
                      /\ Supplied(probe.type) =>
                            ~row.type.isNull /\ row.type.value = probe.type
                      /\ Supplied(probe.duration) =>
                            ~row.duration.isNull /\ row.duration.value = DurationAsked
        /\ (~Supplied(probe.date) /\ ~Supplied(probe.type) /\ ~Supplied(probe.duration)) =>
              Returned = 1..Len(probe.rows)

\* A record of duration 0 and a record without type and duration are
\* stored, and the records of duration 0 were asked for: the first was
\* returned, the second was not.
C28_Witness ==
    /\ Asked
    /\ Len(probe.rows) = 2
    /\ probe.rows[1].duration = SqlValue(0)
    /\ probe.rows[2].duration = SqlNullInteger
    /\ probe.rows[2].type = SqlNullText
    /\ probe.date = Null
    /\ probe.type = Null
    /\ probe.duration = <<"0">>
    /\ probe.result = <<1>>

----------------------------------------------------------------------------
(* Properties of the registry: what an operation leaves alone *)

\* C31. Isolation between records: a call of recordAgentStatus for an
\* application and an agent leaves every record of every other application,
\* and every record of every other agent of that application, in place and
\* equal in every field; and a step that is no such call, an eviction sweep
\* among them, leaves every record it does not remove equal in every field.
C31_RecordIsolation ==
    [][ /\ CallStep =>
              \A q \in Pairs(agentStatus) \ {LastPair'} :
                  /\ q \in Pairs(agentStatus')
                  /\ Agent(agentStatus', q) = Agent(agentStatus, q)
        /\ ~CallStep =>
              \A q \in Pairs(agentStatus') :
                  /\ q \in Pairs(agentStatus)
                  /\ Agent(agentStatus', q) = Agent(agentStatus, q) ]_vars

\* Two agents of one application have called, the second while the record of
\* the first was in the registry, and a sweep has then removed the record of
\* the first: the record of the second is as its call left it.
C31_Witness ==
    /\ Len(calls) = 2
    /\ calls[1].app = LastCall.app
    /\ AgentId(calls[1].req) # AgentId(LastCall.req)
    /\ LastCall.at - calls[1].at <= InactivityWindow
    /\ <<calls[1].app, AgentId(calls[1].req)>> \notin Pairs(agentStatus)
    /\ LastPair \in Pairs(agentStatus)
    /\ Agent(agentStatus, LastPair).requestCount = 1
    /\ DateGetTime(Agent(agentStatus, LastPair).lastSeen) = LastCall.at
    /\ Agent(agentStatus, LastPair).lastAction = LastCall.action

SweepInterval == 600000

\* C32. Staleness bound: with the sweep running every SweepInterval, every
\* record in the registry was last seen no longer ago than InactivityWindow +
\* SweepInterval; and the agents endpoint lists every record of the
\* application that is in the registry, those last seen longer ago than
\* InactivityWindow and not yet swept included.
C32_StalenessBound ==
    /\ [](\A p \in Pairs(agentStatus) :
            DateGetTime(Agent(agentStatus, p).lastSeen)
                >= now - (InactivityWindow + SweepInterval))
    /\ [][ (RequestStep /\ LastResponse'.kind = "agents") =>
              LastResponse'.body.agents =
                  {Agent(agentStatus, p) :
                      p \in {q \in Pairs(agentStatus) : q[1] = LastResponse'.app}} ]_vars

\* The list of agents was asked for when a record had been last seen exactly
\* InactivityWindow + SweepInterval before and the sweep due at that instant
\* had not run yet: the answer lists the record.
C32_Witness ==
    /\ responses # <<>>
    /\ LastResponse.kind = "agents"
    /\ \E agent \in LastResponse.body.agents :
          DateGetTime(LastResponse.body.timestamp) - DateGetTime(agent.lastSeen)
              = InactivityWindow + SweepInterval

\* The call that created the record a pair has now.
Creator(p) == SinceCreation(p)[1]

\* C33. clientLabel is fixed at creation: the userAgent of a record is the
\* user-agent header of the request that created the record, 'unknown' when
\* that request had none, whatever user agents the later requests of the
\* agent carried.
C33_ClientLabelFixed ==
    \A p \in Pairs(agentStatus) :
        \A label \in {Creator(p).req.headers["user-agent"]} :
            Agent(agentStatus, p).userAgent = IF label = Undefined THEN Unknown ELSE label

\* A record was created by a request without user agent and updated by a
\* request of the same agent that carried one: the record says 'unknown'.
C33_Witness ==
    /\ Len(calls) = 2
    /\ Len(SinceCreation(LastPair)) = 2
    /\ calls[1].req.headers["user-agent"] = Undefined
    /\ LastCall.req.headers["user-agent"] = <<"c">>
    /\ Agent(agentStatus, LastPair).userAgent = Unknown
    /\ Agent(agentStatus, LastPair).requestCount = 2

\* The record of the pair was created by a request that named no identity,
\* and so is stored under the address of that request.
FallbackRecord(p) == ~Truthy(Creator(p).req.headers["x-agent-id"])

\* The calls made for a pair since its record was created that named an
\* identity, oldest first.
NamedSinceCreation(p) ==
    SelectSeq(SinceCreation(p), LAMBDA c : Truthy(c.req.headers["x-agent-id"]))

\* C34 as claimed. Fallback records keep address equal to identity: a record
\* created by a request that named no identity has ip equal to its id in
\* every later state, whatever requests to the application came after.
C34_FallbackAddressIsIdentity ==
    \A p \in Pairs(agentStatus) :
        FallbackRecord(p) => Agent(agentStatus, p).ip = Agent(agentStatus, p).id

\* C34, amended. A record created by a request that named no identity has ip
\* equal to its id for as long as the requests recorded for it name no
\* identity; a request that names the id of the record as its identity is
\* recorded on that record and sets ip to the address it came from.
C34_FallbackAddressUntilNamed ==
    \A p \in Pairs(agentStatus) :
        FallbackRecord(p) =>
            \A named \in {NamedSinceCreation(p)} :
                /\ Agent(agentStatus, p).id = p[2]
                /\ Agent(agentStatus, p).ip =
                      IF named = <<>> THEN p[2]
                      ELSE GetClientIP(named[Len(named)].req)

\* A record was created under the address of a request that named no
\* identity, and a request from another address then named that address as
\* its identity: the record holds the address of the second request.
C34_Witness ==
    /\ Len(calls) = 2
    /\ Len(SinceCreation(LastPair)) = 2
    /\ FallbackRecord(LastPair)
    /\ GetClientIP(calls[1].req) = LastPair[2]
    /\ LastCall.req.headers["x-agent-id"] = LastPair[2]
    /\ GetClientIP(LastCall.req) # LastPair[2]
    /\ Agent(agentStatus, LastPair).id = LastPair[2]
    /\ Agent(agentStatus, LastPair).ip = GetClientIP(LastCall.req)

----------------------------------------------------------------------------
(* Properties of getClientIP and of the agent identity: empty results *)

\* C35. Resolved address and identity are never empty: whatever the headers
\* of a request, a forwarded-address header whose first entry is blank among
\* them, the address getClientIP returns and the agent identity the registry
\* keys on are strings of at least one character.
C35_NeverEmpty ==
    Resolved =>
        /\ probe.ip \notin {<<>>, Undefined, Null}
        /\ probe.agentId \notin {<<>>, Undefined, Null}

----------------------------------------------------------------------------
(* Properties of generateConfig: the urls of one manifest *)

\* C36. Distinct files get distinct download urls: in a manifest returned by
\* generateConfig, two entries made from files whose paths differ have
\* different urls.
C36_DistinctUrls ==
    Succeeded =>
        \A i, j \in 1..Len(probe.files.items) :
            probe.files.items[i].path # probe.files.items[j].path =>
                probe.result.value.config.files[i].url
                    # probe.result.value.config.files[j].url

====
